---- MODULE Spec2Model ----
(***************************************************************************)
(* Drone-operations coordinator: the store of missions, pilots and drones  *)
(* (src/api/services/sheets_service.py), the matching engine               *)
(* (src/api/services/matching_service.py), the conflict detector           *)
(* (src/api/agents/conflict_detector.py) and the assignment coordinator    *)
(* (src/api/agents/coordinator_agent.py).                                  *)
(*                                                                         *)
(* Dates are day numbers; NoDate stands for None.  An absent id is the     *)
(* empty string (an empty worksheet cell), which Python treats as false.   *)
(* An Optional record is a sequence of length 0 or 1.  A function that can *)
(* raise returns [raised, value].  A conflict message is the record of the *)
(* values its f-string interpolates.                                       *)
(***************************************************************************)
EXTENDS Integers, Sequences, FiniteSets, TLC

VARIABLES missions, pilots, drones, result, faults, svc, now, local

vars == <<missions, pilots, drones, result, faults, svc, now, local>>

(***************************************************************************)
(* Bounds                                                                  *)
(***************************************************************************)
MaxDate == 6
MaxPilots == 3
MaxDrones == 3
MaxFaults == 1

NoDate == 0
NoId == ""

Skills == {"mapping", "thermal"}
Certs == {"DGCA"}
Locations == {"Bangalore", "Mumbai"}

(***************************************************************************)
(* Sequence helpers                                                        *)
(***************************************************************************)
RECURSIVE Flatten(_)
Flatten(ss) == IF ss = <<>> THEN <<>> ELSE Head(ss) \o Flatten(Tail(ss))

Count(s, Test(_)) == Len(SelectSeq(s, Test))

Range(s) == {s[i] : i \in 1..Len(s)}

(* next((x for x in xs if test(x)), None) *)
First(s, Test(_)) ==
    LET hits == SelectSeq(s, Test)
    IN  IF hits = <<>> THEN <<>> ELSE <<Head(hits)>>

(***************************************************************************)
(* Domain records                                                          *)
(***************************************************************************)
Pilot(id, name, skills, certs, loc, status, cur, avail) ==
    [pilot_id |-> id, name |-> name, skills |-> skills,
     certifications |-> certs, location |-> loc, status |-> status,
     current_assignment |-> cur, available_from |-> avail]

Drone(id, model, caps, status, loc, cur, maint) ==
    [drone_id |-> id, model |-> model, capabilities |-> caps,
     status |-> status, location |-> loc, current_assignment |-> cur,
     maintenance_due |-> maint]

Mission(id, client, loc, skills, certs, start, end, prio, p, d) ==
    [project_id |-> id, client |-> client, location |-> loc,
     required_skills |-> skills, required_certs |-> certs,
     start_date |-> start, end_date |-> end, priority |-> prio,
     assigned_pilot |-> p, assigned_drone |-> d]

(***************************************************************************)
(* Conflict detector                                                       *)
(***************************************************************************)
Message(tmpl, names, items, dates) ==
    [tmpl |-> tmpl, names |-> names, items |-> items, dates |-> dates]

Conflict(type, severity, message) ==
    [type |-> type, severity |-> severity, message |-> message]

_dates_overlap_strict(start1, end1, start2, end2) ==
    start1 < end2 /\ start2 < end1

_dates_overlap(start1, end1, start2, end2) ==
    start1 <= end2 /\ start2 <= end1

(* conflict_detector.py:59-69 *)
SkillCheck(mission, p) ==
    LET missing_skills == mission.required_skills \ p.skills
    IN  IF missing_skills # {}
        THEN <<Conflict("skill_mismatch", "high",
                 Message("pilot lacks required skills",
                         <<p.name, p.pilot_id, mission.project_id>>,
                         missing_skills, <<>>))>>
        ELSE <<>>

(* conflict_detector.py:71-81 *)
CertCheck(mission, p) ==
    LET missing_certs == mission.required_certs \ p.certifications
    IN  IF missing_certs # {}
        THEN <<Conflict("certification_mismatch", "high",
                 Message("pilot lacks required certifications",
                         <<p.name, mission.project_id>>,
                         missing_certs, <<>>))>>
        ELSE <<>>

(* conflict_detector.py:83-89 *)
PilotLocationCheck(mission, p) ==
    IF p.location # mission.location
    THEN <<Conflict("location_mismatch", "medium",
             Message("pilot is in, but mission is in",
                     <<p.name, p.location, mission.project_id,
                       mission.location>>, {}, <<>>))>>
    ELSE <<>>

(* conflict_detector.py:91-96 *)
DroneLocationCheck(mission, d) ==
    IF d.location # mission.location
    THEN <<Conflict("location_mismatch", "medium",
             Message("drone is in, but mission is in",
                     <<d.drone_id, d.location, mission.project_id,
                       mission.location>>, {}, <<>>))>>
    ELSE <<>>

MaintenanceCheckStrict(mission, d) ==
    IF d.maintenance_due # NoDate /\ d.maintenance_due < mission.end_date
    THEN <<Conflict("maintenance_conflict", "high",
             Message("drone requires maintenance during mission",
                     <<d.drone_id, mission.project_id>>, {},
                     <<d.maintenance_due>>))>>
    ELSE <<>>

(* conflict_detector.py:98-104 *)
MaintenanceCheck(mission, d) ==
    IF d.maintenance_due # NoDate /\ d.maintenance_due <= mission.end_date
    THEN <<Conflict("maintenance_conflict", "high",
             Message("drone requires maintenance during mission",
                     <<d.drone_id, mission.project_id>>, {},
                     <<d.maintenance_due>>))>>
    ELSE <<>>

(* conflict_detector.py:106-112 *)
AvailabilityCheck(mission, p) ==
    IF p.available_from # NoDate /\ p.available_from > mission.start_date
    THEN <<Conflict("availability_conflict", "high",
             Message("pilot is only available from, but mission starts on",
                     <<p.name, mission.project_id>>, {},
                     <<p.available_from, mission.start_date>>))>>
    ELSE <<>>

check_assignment_conflicts(mission, pilot, drone) ==
    IF pilot = <<>> \/ drone = <<>> THEN <<>>
    ELSE SkillCheck(mission, pilot[1])
         \o CertCheck(mission, pilot[1])
         \o PilotLocationCheck(mission, pilot[1])
         \o DroneLocationCheck(mission, drone[1])
         \o MaintenanceCheck(mission, drone[1])
         \o AvailabilityCheck(mission, pilot[1])

(* dict keys in insertion order: the distinct non-empty values of a field,  *)
(* by first occurrence                                                     *)
RECURSIVE KeysInOrder(_, _)
KeysInOrder(ids, seen) ==
    IF ids = <<>> THEN <<>>
    ELSE IF Head(ids) = NoId \/ Head(ids) \in seen
         THEN KeysInOrder(Tail(ids), seen)
         ELSE <<Head(ids)>> \o KeysInOrder(Tail(ids), seen \cup {Head(ids)})

(* for i in range(n): for j in range(i + 1, n): the pairs <<ms[i], ms[j]>> *)
PairsInOrder(ms) ==
    Flatten([i \in 1..Len(ms) |->
               [k \in 1..(Len(ms) - i) |-> <<ms[i], ms[i + k]>>]])

PilotDoubleBookings(ms, ps) ==
    LET keys == KeysInOrder([i \in 1..Len(ms) |-> ms[i].assigned_pilot], {})
        OfKey(pilot_id) ==
          LET assigned == SelectSeq(ms, LAMBDA m : m.assigned_pilot = pilot_id)
              hits == SelectSeq(PairsInOrder(assigned),
                        LAMBDA pr : _dates_overlap(pr[1].start_date, pr[1].end_date,
                                                   pr[2].start_date, pr[2].end_date))
              pilot == First(ps, LAMBDA p : p.pilot_id = pilot_id)
              pilot_name == IF pilot # <<>> THEN pilot[1].name ELSE pilot_id
          IN  [i \in 1..Len(hits) |->
                 Conflict("double_booking", "critical",
                   Message("pilot double-booked on overlapping missions",
                           <<pilot_name, hits[i][1].project_id, hits[i][2].project_id>>,
                           {},
                           <<hits[i][1].start_date, hits[i][1].end_date,
                             hits[i][2].start_date, hits[i][2].end_date>>))]
    IN  Flatten([k \in 1..Len(keys) |-> OfKey(keys[k])])

DroneDoubleBookings(ms) ==
    LET keys == KeysInOrder([i \in 1..Len(ms) |-> ms[i].assigned_drone], {})
        OfKey(drone_id) ==
          LET assigned == SelectSeq(ms, LAMBDA m : m.assigned_drone = drone_id)
              hits == SelectSeq(PairsInOrder(assigned),
                        LAMBDA pr : _dates_overlap(pr[1].start_date, pr[1].end_date,
                                                   pr[2].start_date, pr[2].end_date))
          IN  [i \in 1..Len(hits) |->
                 Conflict("double_booking", "critical",
                   Message("drone double-booked on overlapping missions",
                           <<drone_id, hits[i][1].project_id, hits[i][2].project_id>>,
                           {}, <<>>))]
    IN  Flatten([k \in 1..Len(keys) |-> OfKey(keys[k])])

check_double_bookings(ms, ps, ds) ==
    PilotDoubleBookings(ms, ps) \o DroneDoubleBookings(ms)

(* the text "OVERDUE" / "due in N days" depends on today's date and is left *)
(* out of the message record                                               *)
check_maintenance_conflicts(ds, ms) ==
    Flatten([i \in 1..Len(ds) |->
      IF ds[i].maintenance_due = NoDate THEN <<>>
      ELSE LET hits == SelectSeq(ms, LAMBDA m :
                         m.assigned_drone = ds[i].drone_id
                         /\ ds[i].maintenance_due <= m.end_date)
           IN  [j \in 1..Len(hits) |->
                  Conflict("maintenance_conflict", "high",
                    Message("drone assigned during maintenance period",
                            <<ds[i].drone_id, hits[j].project_id>>, {},
                            <<ds[i].maintenance_due>>))]])

check_certification_conflicts(ms, ps) ==
    Flatten([i \in 1..Len(ms) |->
      IF ms[i].assigned_pilot = NoId THEN <<>>
      ELSE LET pilot == First(ps, LAMBDA p : p.pilot_id = ms[i].assigned_pilot)
           IN  IF pilot # <<>>
                  /\ ms[i].required_certs \ pilot[1].certifications # {}
               THEN <<Conflict("certification_mismatch", "high",
                        Message("pilot assigned lacks certifications",
                                <<pilot[1].name, ms[i].project_id>>,
                                ms[i].required_certs \ pilot[1].certifications,
                                <<>>))>>
               ELSE <<>>])

check_location_mismatches(ms, ps, ds) ==
    Flatten([i \in 1..Len(ms) |->
      (IF ms[i].assigned_pilot = NoId THEN <<>>
       ELSE LET pilot == First(ps, LAMBDA p : p.pilot_id = ms[i].assigned_pilot)
            IN  IF pilot # <<>> /\ pilot[1].location # ms[i].location
                THEN <<Conflict("location_mismatch", "medium",
                         Message("pilot in assigned to mission in",
                                 <<pilot[1].name, pilot[1].location,
                                   ms[i].location, ms[i].project_id>>, {}, <<>>))>>
                ELSE <<>>)
      \o
      (IF ms[i].assigned_drone = NoId THEN <<>>
       ELSE LET drone == First(ds, LAMBDA d : d.drone_id = ms[i].assigned_drone)
            IN  IF drone # <<>> /\ drone[1].location # ms[i].location
                THEN <<Conflict("location_mismatch", "medium",
                         Message("drone in assigned to mission in",
                                 <<drone[1].drone_id, drone[1].location,
                                   ms[i].location, ms[i].project_id>>, {}, <<>>))>>
                ELSE <<>>)])

(* the scans without the per-assignment pass of lines 27-35 *)
detect_all_conflicts_scans_only(ms, ps, ds) ==
    check_double_bookings(ms, ps, ds)
    \o check_maintenance_conflicts(ds, ms)
    \o check_certification_conflicts(ms, ps)
    \o check_location_mismatches(ms, ps, ds)

detect_all_conflicts(ms, ps, ds) ==
    Flatten([i \in 1..Len(ms) |->
      IF ms[i].assigned_pilot # NoId /\ ms[i].assigned_drone # NoId
      THEN check_assignment_conflicts(ms[i],
             First(ps, LAMBDA p : p.pilot_id = ms[i].assigned_pilot),
             First(ds, LAMBDA d : d.drone_id = ms[i].assigned_drone))
      ELSE <<>>])
    \o check_double_bookings(ms, ps, ds)
    \o check_maintenance_conflicts(ds, ms)
    \o check_certification_conflicts(ms, ps)
    \o check_location_mismatches(ms, ps, ds)

(***************************************************************************)
(* Matching engine                                                         *)
(***************************************************************************)
(* the filters without the available_from test of lines 30-32 *)
PilotPassesAnyDate(pilot, mission) ==
    /\ pilot.status = "Available"
    /\ pilot.location = mission.location
    /\ mission.required_skills \subseteq pilot.skills
    /\ mission.required_certs \subseteq pilot.certifications

(* matching_service.py:22-46: the five filters of find_matching_pilots *)
PilotPasses(pilot, mission) ==
    /\ pilot.status = "Available"
    /\ pilot.location = mission.location
    /\ ~(pilot.available_from # NoDate
         /\ pilot.available_from > mission.start_date)
    /\ mission.required_skills \subseteq pilot.skills
    /\ mission.required_certs \subseteq pilot.certifications

(* len(mission_skills) = 0 makes line 109 divide by zero *)
ScoreRaises(pilot, mission) == Cardinality(mission.required_skills) = 0

(* every on-time pilot gets the full bonus, whatever the gap *)
TimingBonusFlat(pilot, mission) ==
    IF pilot.available_from # NoDate
    THEN IF mission.start_date - pilot.available_from >= 0 THEN 15 ELSE 0
    ELSE 0

(* availability timing, matching_service.py:123-132, in hundredths *)
TimingBonus(pilot, mission) ==
    IF pilot.available_from # NoDate
    THEN LET days_until_available == mission.start_date - pilot.available_from
         IN  IF days_until_available >= 0
             THEN IF days_until_available <= 3 THEN 15 ELSE 10
             ELSE 0
    ELSE 0

(* the score in hundredths (round(score, 2) * 100); defined when           *)
(* ScoreRaises is false                                                    *)
_calculate_pilot_match_score(pilot, mission) ==
    LET ns == Cardinality(mission.required_skills)
        nc == Cardinality(mission.required_certs)
        skill_overlap == Cardinality(mission.required_skills \cap pilot.skills)
        cert_overlap == Cardinality(mission.required_certs \cap pilot.certifications)
        den == ns * (IF nc = 0 THEN 1 ELSE nc)
        num == skill_overlap * 40 * (IF nc = 0 THEN 1 ELSE nc)
               + (IF nc = 0 THEN 30 * ns ELSE cert_overlap * 30 * ns)
        weighted == (2 * num + den) \div (2 * den)
    IN  weighted
        + (IF pilot.location = mission.location THEN 15 ELSE 0)
        + TimingBonus(pilot, mission)

(* list.sort(key=..., reverse=True) is stable: an element is placed after  *)
(* every element whose key is greater or equal.  Elements are <<x, key>>.  *)
RECURSIVE InsertDesc(_, _)
InsertDesc(sorted, e) ==
    IF sorted = <<>> THEN <<e>>
    ELSE IF Head(sorted)[2] >= e[2]
         THEN <<Head(sorted)>> \o InsertDesc(Tail(sorted), e)
         ELSE <<e>> \o sorted

(* descending, but equal keys come out in reverse encounter order *)
RECURSIVE SortUnstable(_)
SortUnstable(scored) ==
    IF scored = <<>> THEN <<>>
    ELSE LET rest == SortUnstable(Tail(scored))
             e == Head(scored)
             before == SelectSeq(rest, LAMBDA x : x[2] >= e[2])
             after == SelectSeq(rest, LAMBDA x : x[2] < e[2])
         IN  before \o <<e>> \o after

RECURSIVE SortByScoreDesc(_)
SortByScoreDesc(scored) ==
    IF scored = <<>> THEN <<>>
    ELSE InsertDesc(SortByScoreDesc(SubSeq(scored, 1, Len(scored) - 1)),
                    scored[Len(scored)])

find_matching_pilots(mission, ps) ==
    LET survivors == SelectSeq(ps, LAMBDA p : PilotPasses(p, mission))
        raised == \E i \in 1..Len(survivors) : ScoreRaises(survivors[i], mission)
        matching_pilots ==
          [i \in 1..Len(survivors) |->
             <<survivors[i], _calculate_pilot_match_score(survivors[i], mission)>>]
        ranked == SortByScoreDesc(matching_pilots)
    IN  IF raised
        THEN [raised |-> TRUE, value |-> <<>>]
        ELSE [raised |-> FALSE, value |-> [i \in 1..Len(ranked) |-> ranked[i][1]]]

DronePassesMaintLt(drone, mission) ==
    /\ drone.status = "Available"
    /\ drone.location = mission.location
    /\ ~(drone.maintenance_due # NoDate
         /\ drone.maintenance_due < mission.end_date)

(* matching_service.py:63-75: the filters of find_matching_drones *)
DronePasses(drone, mission) ==
    /\ drone.status = "Available"
    /\ drone.location = mission.location
    /\ ~(drone.maintenance_due # NoDate
         /\ drone.maintenance_due <= mission.end_date)

find_matching_drones(mission, ds) ==
    SelectSeq(ds, LAMBDA d : DronePasses(d, mission))

(***************************************************************************)
(* Store: the three worksheets of "Drone Operations"                       *)
(***************************************************************************)
Sheets == {"missions", "pilot_roster", "drone_fleet"}

Store(ms, ps, ds) == [missions |-> ms, pilots |-> ps, drones |-> ds]

get_mission(store, project_id) ==
    First(store.missions, LAMBDA m : m.project_id = project_id)

get_pilot(store, pilot_id) ==
    First(store.pilots, LAMBDA p : p.pilot_id = pilot_id)

get_drone(store, drone_id) ==
    First(store.drones, LAMBDA d : d.drone_id = drone_id)

(* worksheet.find(key): the row of the first cell holding key, or None *)
RowFound(rows, idField, key) ==
    \E i \in 1..Len(rows) : rows[i][idField] = key

IsFoundRow(rows, idField, key, i) ==
    /\ rows[i][idField] = key
    /\ \A j \in 1..(i - 1) : rows[j][idField] # key

(* two update_cell calls on the row worksheet.find(key) returned; doA and  *)
(* doB tell which of the two took effect                                   *)
UpdateRow(rows, idField, key, colA, doA, valA, colB, doB, valB) ==
    [i \in 1..Len(rows) |->
       IF IsFoundRow(rows, idField, key, i)
       THEN [rows[i] EXCEPT ![colA] = IF doA THEN valA ELSE @,
                            ![colB] = IF doB THEN valB ELSE @]
       ELSE rows[i]]

(* What can go wrong in one call of a store write: nothing, one worksheet   *)
(* cannot be opened (_get_sheet returns None), or the at-th update_cell of  *)
(* the call raises before it takes effect.                                 *)
NoFault == [kind |-> "none", sheet |-> "", at |-> 0]

Faults ==
    {NoFault}
    \cup {[kind |-> "unavailable", sheet |-> s, at |-> 0] : s \in Sheets}
    \cup {[kind |-> "raise", sheet |-> "", at |-> k] : k \in 1..6}

(* a service that never authenticated has client = None: _get_sheet        *)
(* catches the AttributeError and returns None for every worksheet         *)
NoClient == [kind |-> "no_client", sheet |-> "", at |-> 0]

SheetOpen(fault, sheet) ==
    /\ ~(fault.kind = "unavailable" /\ fault.sheet = sheet)
    /\ fault.kind # "no_client"

(* the writes without the two status cells (lines 285 and 294) *)
assign_to_mission_unmarked(store, project_id, pilot_id, drone_id, fault) ==
    LET att_m == SheetOpen(fault, "missions")
                 /\ RowFound(store.missions, "project_id", project_id)
        att_p == SheetOpen(fault, "pilot_roster")
                 /\ RowFound(store.pilots, "pilot_id", pilot_id)
        att_d == SheetOpen(fault, "drone_fleet")
                 /\ RowFound(store.drones, "drone_id", drone_id)
        Att(k) == IF k <= 2 THEN att_m ELSE IF k <= 4 THEN att_p ELSE att_d
        raiseAt == IF fault.kind = "raise" /\ Att(fault.at) THEN fault.at ELSE 0
        Done(k) == Att(k) /\ (raiseAt = 0 \/ k < raiseAt)
    IN  [ok |-> raiseAt = 0,
         store |->
           Store(UpdateRow(store.missions, "project_id", project_id,
                           "assigned_pilot", Done(1), pilot_id,
                           "assigned_drone", Done(2), drone_id),
                 UpdateRow(store.pilots, "pilot_id", pilot_id,
                           "current_assignment", Done(3), project_id,
                           "status", FALSE, "Assigned"),
                 UpdateRow(store.drones, "drone_id", drone_id,
                           "current_assignment", Done(5), project_id,
                           "status", FALSE, "In Use"))]

(* The six update_cell calls in program order: 1, 2 on the mission row,    *)
(* 3, 4 on the pilot row, 5, 6 on the drone row.  A call is attempted when *)
(* its worksheet opens and its row is found; the first attempted call that *)
(* raises ends the function with False, the calls before it stay applied.  *)
assign_to_mission(store, project_id, pilot_id, drone_id, fault) ==
    LET att_m == SheetOpen(fault, "missions")
                 /\ RowFound(store.missions, "project_id", project_id)
        att_p == SheetOpen(fault, "pilot_roster")
                 /\ RowFound(store.pilots, "pilot_id", pilot_id)
        att_d == SheetOpen(fault, "drone_fleet")
                 /\ RowFound(store.drones, "drone_id", drone_id)
        Att(k) == IF k <= 2 THEN att_m ELSE IF k <= 4 THEN att_p ELSE att_d
        raiseAt == IF fault.kind = "raise" /\ Att(fault.at) THEN fault.at ELSE 0
        Done(k) == Att(k) /\ (raiseAt = 0 \/ k < raiseAt)
    IN  [ok |-> raiseAt = 0,
         store |->
           Store(UpdateRow(store.missions, "project_id", project_id,
                           "assigned_pilot", Done(1), pilot_id,
                           "assigned_drone", Done(2), drone_id),
                 UpdateRow(store.pilots, "pilot_id", pilot_id,
                           "current_assignment", Done(3), project_id,
                           "status", Done(4), "Assigned"),
                 UpdateRow(store.drones, "drone_id", drone_id,
                           "current_assignment", Done(5), project_id,
                           "status", Done(6), "In Use"))]

(***************************************************************************)
(* The SheetsService instance: its cache (sheets_service.py:27-31, 74-190) *)
(* and the local CSV files it falls back to (343-447).  A cache is <<>>    *)
(* for None, else one record with the rows and the time they were loaded   *)
(* (the load time is kept for the properties; the code keeps only the      *)
(* shared _last_sync).  Time is in seconds.                                *)
(***************************************************************************)
NoTime == -1
CacheWindow == 300
SecondsPerDay == 86400

NewService ==
    [_pilots_cache |-> <<>>, _drones_cache |-> <<>>, _missions_cache |-> <<>>,
     _last_sync |-> NoTime]

NoFiles == [missions |-> <<>>, pilots |-> <<>>, drones |-> <<>>]

(* timedelta.seconds: the seconds of the difference with whole days left   *)
(* out                                                                     *)
SecondsOf(delta) == delta % SecondsPerDay

(* lines 77-80: "if self._x_cache and self._last_sync" and                  *)
(* "(datetime.now() - self._last_sync).seconds < 300"                      *)
CacheFresh(service, cache, time) ==
    /\ cache # <<>>
    /\ cache[1].rows # <<>>
    /\ service._last_sync # NoTime
    /\ SecondsOf(time - service._last_sync) < CacheWindow

(* _load_local_pilots, _load_local_drones: an empty date cell reaches      *)
(* _parse_date as a float NaN, on which .strip() raises before the inner   *)
(* try; the loader's except then returns []                                *)
_load_local_pilots(files) ==
    IF \E i \in 1..Len(files.pilots) : files.pilots[i].available_from = NoDate
    THEN <<>> ELSE files.pilots

_load_local_drones(files) ==
    IF \E i \in 1..Len(files.drones) : files.drones[i].maintenance_due = NoDate
    THEN <<>> ELSE files.drones

(* _load_local_missions sets assigned_pilot and assigned_drone to None *)
_load_local_missions(files) ==
    [i \in 1..Len(files.missions) |->
       [files.missions[i] EXCEPT !.assigned_pilot = NoId, !.assigned_drone = NoId]]

(* get_pilots, get_drones, get_missions share this shape: the cache when   *)
(* fresh, else the worksheet (kept as the new cache, _last_sync set), else *)
(* the local file when the worksheet cannot be opened                      *)
CachedRead(service, field, sheet_rows, local_rows, time, sheet_open) ==
    IF CacheFresh(service, service[field], time)
    THEN [rows |-> service[field][1].rows, source |-> "cache",
          loaded_at |-> service[field][1].loaded_at, svc |-> service]
    ELSE IF sheet_open
    THEN [rows |-> sheet_rows, source |-> "sheet", loaded_at |-> time,
          svc |-> [service EXCEPT ![field] = <<[rows |-> sheet_rows, loaded_at |-> time]>>,
                                  !._last_sync = time]]
    ELSE [rows |-> local_rows, source |-> "local", loaded_at |-> time, svc |-> service]

get_pilots(service, store, files, time, sheet_open) ==
    CachedRead(service, "_pilots_cache", store.pilots, _load_local_pilots(files),
               time, sheet_open)

get_drones(service, store, files, time, sheet_open) ==
    CachedRead(service, "_drones_cache", store.drones, _load_local_drones(files),
               time, sheet_open)

get_missions(service, store, files, time, sheet_open) ==
    CachedRead(service, "_missions_cache", store.missions, _load_local_missions(files),
               time, sheet_open)

(* lines 296-299 *)
ClearAllCaches(service) ==
    [service EXCEPT !._pilots_cache = <<>>, !._drones_cache = <<>>,
                    !._missions_cache = <<>>]

(* one update_cell on the row worksheet.find(key) returned *)
SetStatus(rows, idField, key, status) ==
    [i \in 1..Len(rows) |->
       IF IsFoundRow(rows, idField, key, i)
       THEN [rows[i] EXCEPT !.status = status]
       ELSE rows[i]]

(* _update_local_pilot_status, _update_local_drone_status: every row of    *)
(* the file with that id                                                   *)
SetLocalStatus(rows, idField, key, status) ==
    [i \in 1..Len(rows) |->
       IF rows[i][idField] = key THEN [rows[i] EXCEPT !.status = status] ELSE rows[i]]

(* the status write without the cache reset of line 232 *)
update_pilot_status_keep_cache(service, store, files, pilot_id, status, fault) ==
    IF ~SheetOpen(fault, "pilot_roster")
       \/ ~RowFound(store.pilots, "pilot_id", pilot_id)
       \/ fault.kind = "raise"
    THEN [ok |-> FALSE, store |-> store, svc |-> service, local |-> files]
    ELSE [ok |-> TRUE,
          store |-> Store(store.missions,
                          SetStatus(store.pilots, "pilot_id", pilot_id, status),
                          store.drones),
          svc |-> service,
          local |-> [files EXCEPT !.pilots =
                       SetLocalStatus(files.pilots, "pilot_id", pilot_id, status)]]

(* sheets_service.py:216-242; a raise fault makes update_cell raise *)
update_pilot_status(service, store, files, pilot_id, status, fault) ==
    IF ~SheetOpen(fault, "pilot_roster")
       \/ ~RowFound(store.pilots, "pilot_id", pilot_id)
       \/ fault.kind = "raise"
    THEN [ok |-> FALSE, store |-> store, svc |-> service, local |-> files]
    ELSE [ok |-> TRUE,
          store |-> Store(store.missions,
                          SetStatus(store.pilots, "pilot_id", pilot_id, status),
                          store.drones),
          svc |-> [service EXCEPT !._pilots_cache = <<>>],
          local |-> [files EXCEPT !.pilots =
                       SetLocalStatus(files.pilots, "pilot_id", pilot_id, status)]]

(* sheets_service.py:244-266 *)
update_drone_status(service, store, files, drone_id, status, fault) ==
    IF ~SheetOpen(fault, "drone_fleet")
       \/ ~RowFound(store.drones, "drone_id", drone_id)
       \/ fault.kind = "raise"
    THEN [ok |-> FALSE, store |-> store, svc |-> service, local |-> files]
    ELSE [ok |-> TRUE,
          store |-> Store(store.missions, store.pilots,
                          SetStatus(store.drones, "drone_id", drone_id, status)),
          svc |-> [service EXCEPT !._drones_cache = <<>>],
          local |-> [files EXCEPT !.drones =
                       SetLocalStatus(files.drones, "drone_id", drone_id, status)]]

(***************************************************************************)
(* Assignment coordinator                                                  *)
(***************************************************************************)
Error(text, detail) == [text |-> text, detail |-> detail]

NoError == Error("", <<>>)

(* the dict assign_mission returns, with the call's arguments and what the *)
(* store write returned                                                    *)
Returned(op, project_id, pilot_id, drone_id, success, error, called, ret) ==
    [op |-> op, project_id |-> project_id, pilot_id |-> pilot_id,
     drone_id |-> drone_id, success |-> success, error |-> error,
     store_called |-> called, store_ret |-> ret]

Messages(conflicts) == [i \in 1..Len(conflicts) |-> conflicts[i].message]

assign_mission_unchecked(store, project_id, pilot_id, drone_id, fault) ==
    LET mission == get_mission(store, project_id)
        pilot == get_pilot(store, pilot_id)
        drone == get_drone(store, drone_id)
        Ret(success, error, called, ret) ==
          Returned("assign_mission", project_id, pilot_id, drone_id,
                   success, error, called, ret)
    IN  IF mission = <<>>
        THEN [ret |-> Ret(FALSE, Error("Mission not found", <<project_id>>), FALSE, FALSE),
              store |-> store]
        ELSE IF pilot = <<>>
        THEN [ret |-> Ret(FALSE, Error("Pilot not found", <<pilot_id>>), FALSE, FALSE),
              store |-> store]
        ELSE IF drone = <<>>
        THEN [ret |-> Ret(FALSE, Error("Drone not found", <<drone_id>>), FALSE, FALSE),
              store |-> store]
        ELSE LET written == assign_to_mission(store, project_id, pilot_id, drone_id, fault)
             IN  IF written.ok
                 THEN [ret |-> Ret(TRUE, NoError, TRUE, TRUE), store |-> written.store]
                 ELSE [ret |-> Ret(FALSE, Error("Failed to update assignment in sheets", <<>>),
                                   TRUE, FALSE),
                       store |-> written.store]

assign_mission(store, project_id, pilot_id, drone_id, fault) ==
    LET mission == get_mission(store, project_id)
        pilot == get_pilot(store, pilot_id)
        drone == get_drone(store, drone_id)
        Ret(success, error, called, ret) ==
          Returned("assign_mission", project_id, pilot_id, drone_id,
                   success, error, called, ret)
    IN  IF mission = <<>>
        THEN [ret |-> Ret(FALSE, Error("Mission not found", <<project_id>>), FALSE, FALSE),
              store |-> store]
        ELSE IF pilot = <<>>
        THEN [ret |-> Ret(FALSE, Error("Pilot not found", <<pilot_id>>), FALSE, FALSE),
              store |-> store]
        ELSE IF drone = <<>>
        THEN [ret |-> Ret(FALSE, Error("Drone not found", <<drone_id>>), FALSE, FALSE),
              store |-> store]
        ELSE LET conflicts == check_assignment_conflicts(mission[1], pilot, drone)
             IN  IF conflicts # <<>>
                 THEN [ret |-> Ret(FALSE,
                                   Error("Assignment conflicts detected", Messages(conflicts)),
                                   FALSE, FALSE),
                       store |-> store]
                 ELSE LET written == assign_to_mission(store, project_id, pilot_id,
                                                       drone_id, fault)
                      IN  IF written.ok
                          THEN [ret |-> Ret(TRUE, NoError, TRUE, TRUE),
                                store |-> written.store]
                          ELSE [ret |-> Ret(FALSE,
                                            Error("Failed to update assignment in sheets", <<>>),
                                            TRUE, FALSE),
                                store |-> written.store]

(***************************************************************************)
(* The coordinator over a store                                            *)
(*                                                                         *)
(* The handlers here read the worksheets directly.  The writes change only *)
(* assigned_pilot, assigned_drone, status and current_assignment, none of  *)
(* which check_assignment_conflicts reads, so a cached roster gives the    *)
(* same verdicts; the handlers with the cache are further below.           *)
(***************************************************************************)
StoreMissions ==
    << Mission("PRJ001", "Client A", "Bangalore", {"mapping", "thermal"}, {"DGCA"},
               1, 2, "Urgent", NoId, NoId),
       Mission("PRJ002", "Client B", "Bangalore", {"mapping"}, {"DGCA"},
               2, 3, "Standard", NoId, NoId),
       Mission("PRJ003", "Client C", "Bangalore", {"mapping"}, {"DGCA"},
               4, 5, "Low", NoId, NoId) >>

StorePilots ==
    << Pilot("P001", "Arjun", {"mapping", "thermal"}, {"DGCA"}, "Bangalore",
             "Available", NoId, NoDate),
       Pilot("P002", "Neha", {"mapping"}, {"DGCA"}, "Bangalore",
             "Available", NoId, 2) >>

StoreDrones ==
    << Drone("D001", "DJI M300", {"LiDAR", "RGB"}, "Available", "Bangalore", NoId, NoDate),
       Drone("D002", "DJI Mavic 3", {"RGB"}, "Available", "Bangalore", NoId, 3) >>

(* the calls tried: every triple of known ids, and an unknown id in each   *)
(* position                                                                *)
KnownProjects == {"PRJ001", "PRJ002", "PRJ003"}
KnownPilots == {"P001", "P002"}
KnownDrones == {"D001", "D002"}

AssignCalls ==
    (KnownProjects \X KnownPilots \X KnownDrones)
    \cup {<<"PRJ999", "P001", "D001">>, <<"PRJ001", "P999", "D001">>,
          <<"PRJ001", "P001", "D999">>}

CurrentStore == Store(missions, pilots, drones)

Init ==
    /\ missions = StoreMissions
    /\ pilots = StorePilots
    /\ drones = StoreDrones
    /\ result = [op |-> "none"]
    /\ faults = 0
    /\ svc = NewService
    /\ now = 0
    /\ local = Store(missions, pilots, drones)

(* a behaviour injects at most MaxFaults store faults *)
FaultsLeft == IF faults < MaxFaults THEN Faults ELSE {NoFault}

(* a fault can strike only a call that reaches the store write *)
ReachesWrite(store, call) ==
    /\ get_mission(store, call[1]) # <<>>
    /\ get_pilot(store, call[2]) # <<>>
    /\ get_drone(store, call[3]) # <<>>
    /\ check_assignment_conflicts(get_mission(store, call[1])[1],
                                  get_pilot(store, call[2]),
                                  get_drone(store, call[3])) = <<>>

(* POST /assign -> CoordinatorAgent.assign_mission *)
AssignMission ==
    \E call \in AssignCalls :
      \E fault \in (IF ReachesWrite(CurrentStore, call) THEN FaultsLeft ELSE {NoFault}) :
        \E r \in {assign_mission(CurrentStore, call[1], call[2], call[3], fault)} :
          /\ missions' = r.store.missions
          /\ pilots' = r.store.pilots
          /\ drones' = r.store.drones
          /\ result' = r.ret
          /\ faults' = IF fault # NoFault THEN faults + 1 ELSE faults
          /\ UNCHANGED <<svc, now, local>>

(* GET /conflicts -> ConflictDetector.detect_all_conflicts *)
DetectAllConflicts ==
    /\ result' = [op |-> "detect_all_conflicts",
                  conflicts |-> detect_all_conflicts(missions, pilots, drones)]
    /\ UNCHANGED <<missions, pilots, drones, faults, svc, now, local>>

Next ==
    \/ AssignMission
    \/ DetectAllConflicts

Spec == Init /\ [][Next]_vars

(***************************************************************************)
(* Properties of the coordinator over a store                              *)
(***************************************************************************)
(* the three records as a complete assign_to_mission leaves them *)
Applied(ms, ps, ds, project_id, pilot_id, drone_id) ==
    /\ \E i \in 1..Len(ms) : /\ ms[i].project_id = project_id
                             /\ ms[i].assigned_pilot = pilot_id
                             /\ ms[i].assigned_drone = drone_id
    /\ \E i \in 1..Len(ps) : /\ ps[i].pilot_id = pilot_id
                             /\ ps[i].status = "Assigned"
                             /\ ps[i].current_assignment = project_id
    /\ \E i \in 1..Len(ds) : /\ ds[i].drone_id = drone_id
                             /\ ds[i].status = "In Use"
                             /\ ds[i].current_assignment = project_id

Overlapping(m1, m2) ==
    m1.start_date <= m2.end_date /\ m2.start_date <= m1.end_date

(* C1: assign_mission reaches the store write only when mission, pilot and *)
(* drone exist and check_assignment_conflicts is empty; a missing entity   *)
(* gives the not-found failure of the first missing one, a conflict gives  *)
(* a failure whose text holds every conflict message, and in both cases    *)
(* no mission, pilot or drone record changes.                              *)
C1_AssignMissionGuarded ==
    [][result'.op = "assign_mission" =>
       \E m \in {get_mission(CurrentStore, result'.project_id)},
          p \in {get_pilot(CurrentStore, result'.pilot_id)},
          d \in {get_drone(CurrentStore, result'.drone_id)} :
         \E conflicts \in {IF m = <<>> \/ p = <<>> \/ d = <<>> THEN <<>>
                           ELSE check_assignment_conflicts(m[1], p, d)} :
           /\ result'.store_called =>
                m # <<>> /\ p # <<>> /\ d # <<>> /\ conflicts = <<>>
           /\ (m = <<>> \/ p = <<>> \/ d = <<>>) =>
                /\ ~result'.success
                /\ ~result'.store_called
                /\ result'.error =
                     (IF m = <<>> THEN Error("Mission not found", <<result'.project_id>>)
                      ELSE IF p = <<>> THEN Error("Pilot not found", <<result'.pilot_id>>)
                      ELSE Error("Drone not found", <<result'.drone_id>>))
                /\ UNCHANGED <<missions, pilots, drones>>
           /\ conflicts # <<>> =>
                /\ ~result'.success
                /\ ~result'.store_called
                /\ result'.error.text = "Assignment conflicts detected"
                /\ \A i \in 1..Len(conflicts) :
                     \E k \in 1..Len(result'.error.detail) :
                       result'.error.detail[k] = conflicts[i].message
                /\ UNCHANGED <<missions, pilots, drones>>
    ]_vars

(* a call refused with two conflict messages while a mission is assigned *)
C1_Witness ==
    /\ result.op = "assign_mission"
    /\ ~result.success
    /\ result.error.text = "Assignment conflicts detected"
    /\ Len(result.error.detail) >= 2
    /\ \E i \in 1..Len(missions) : missions[i].assigned_pilot # NoId

(* C2: starting without double-booking, no sequence of assign_mission      *)
(* calls reaches a state in which detect_all_conflicts reports a           *)
(* double_booking conflict.                                                *)
C2_NoDoubleBooking ==
    LET cs == detect_all_conflicts(missions, pilots, drones)
    IN  \A k \in 1..Len(cs) : cs[k].type # "double_booking"

(* C3: assign_to_mission is atomic: after it returns, either it returned   *)
(* true and mission, pilot and drone records are all updated, or it        *)
(* returned false and none of them changed.                                *)
C3_AssignToMissionAtomic ==
    [][(result'.op = "assign_mission" /\ result'.store_called) =>
         \/ /\ result'.store_ret
            /\ Applied(missions', pilots', drones',
                       result'.project_id, result'.pilot_id, result'.drone_id)
         \/ /\ ~result'.store_ret
            /\ UNCHANGED <<missions, pilots, drones>>
    ]_vars

(* C4: assign_mission returns success only if, in the store, the mission   *)
(* references the given pilot and drone, the pilot is Assigned and the     *)
(* drone is In Use; a write that did not take effect is a failure.         *)
C4_SuccessMeansApplied ==
    (result.op = "assign_mission" /\ result.success) =>
      Applied(missions, pilots, drones,
              result.project_id, result.pilot_id, result.drone_id)

(* C6: detect_all_conflicts holds, for every pair of distinct missions,    *)
(* exactly one critical double_booking conflict naming both when they      *)
(* share an assigned pilot and their ranges overlap (s1 <= e2 and          *)
(* s2 <= e1), the same for a shared drone, and no other double_booking.    *)
C6_DoubleBookingPerPair ==
    result.op = "detect_all_conflicts" =>
      LET db == SelectSeq(result.conflicts, LAMBDA c : c.type = "double_booking")
          Names(c, i, j) ==
            /\ c.message.names[2] = missions[i].project_id
            /\ c.message.names[3] = missions[j].project_id
          OfPilot(c) == c.message.tmpl = "pilot double-booked on overlapping missions"
          OfDrone(c) == c.message.tmpl = "drone double-booked on overlapping missions"
          PairsOf == {pr \in (1..Len(missions)) \X (1..Len(missions)) : pr[1] < pr[2]}
      IN  /\ \A k \in 1..Len(db) :
               /\ db[k].severity = "critical"
               /\ OfPilot(db[k]) \/ OfDrone(db[k])
               /\ \E pr \in PairsOf : Names(db[k], pr[1], pr[2])
          /\ \A pr \in PairsOf :
               LET m1 == missions[pr[1]]
                   m2 == missions[pr[2]]
               IN  /\ Count(db, LAMBDA c : OfPilot(c) /\ Names(c, pr[1], pr[2])) =
                        (IF m1.assigned_pilot # NoId
                            /\ m1.assigned_pilot = m2.assigned_pilot
                            /\ Overlapping(m1, m2) THEN 1 ELSE 0)
                   /\ Count(db, LAMBDA c : OfDrone(c) /\ Names(c, pr[1], pr[2])) =
                        (IF m1.assigned_drone # NoId
                            /\ m1.assigned_drone = m2.assigned_drone
                            /\ Overlapping(m1, m2) THEN 1 ELSE 0)

(* the scan ran on a store where one pilot holds three missions, one pair  *)
(* of which shares a boundary date and another does not overlap            *)
C6_Witness ==
    /\ result.op = "detect_all_conflicts"
    /\ \E i, j, k \in 1..Len(missions) :
         /\ i < j /\ j # k /\ i # k
         /\ missions[i].assigned_pilot # NoId
         /\ missions[i].assigned_pilot = missions[j].assigned_pilot
         /\ missions[i].assigned_pilot = missions[k].assigned_pilot
         /\ missions[i].end_date = missions[j].start_date
         /\ ~Overlapping(missions[i], missions[k])
    /\ \E c \in Range(result.conflicts) : c.type = "double_booking"

(***************************************************************************)
(* The matching engine and the per-assignment check on bounded inputs.     *)
(* The store variables hold the arguments: missions is the one mission,    *)
(* pilots and drones the candidate lists (for the per-assignment check,    *)
(* the optional pilot and drone).                                          *)
(***************************************************************************)
IdsOfPilots == <<"P001", "P002", "P003", "P004", "P005">>
NamesOfPilots == <<"Arjun", "Neha", "Rohit", "Priya", "Kiran">>
IdsOfDrones == <<"D001", "D002", "D003", "D004", "D005">>
CapsOfDrones == <<{"RGB"}, {"LiDAR", "Thermal"}, {"LiDAR"}, {"Thermal"}, {"RGB", "LiDAR"}>>

RefDate == MaxDate - 1

(* missions at one location, with every set of requirements *)
MatchMissions ==
    {Mission("PRJ001", "Client A", "Bangalore", sk, ce, start, RefDate, "High", NoId, NoId) :
       sk \in SUBSET Skills, ce \in SUBSET Certs, start \in {RefDate - 1, RefDate}}

(* missions for candidate lists: with and without required skills *)
RankMissions ==
    {Mission("PRJ001", "Client A", "Bangalore", sk, Certs, RefDate, RefDate, "High", NoId, NoId) :
       sk \in {{}, Skills}}

PilotInputs(i) ==
    {Pilot(IdsOfPilots[i], NamesOfPilots[i], sk, ce, loc, st, NoId, av) :
       sk \in SUBSET Skills, ce \in SUBSET Certs, loc \in Locations,
       st \in {"Available", "Assigned"}, av \in 0..MaxDate}

(* fully qualified pilots that differ in status and available-from date *)
RankAttrs == {"Available", "Assigned"} \X (0..MaxDate)

PilotLists ==
    {<<>>}
    \cup {<<p>> : p \in PilotInputs(1)}

RankedPilotList(n, f) ==
    [i \in 1..n |-> Pilot(IdsOfPilots[i], NamesOfPilots[i], Skills, Certs,
                          "Bangalore", f[i][1], NoId, f[i][2])]

DroneDates == {NoDate} \cup ((RefDate - 1)..(RefDate + 1))

DroneAttrs == {"Available", "In Use"} \X Locations \X DroneDates

DroneList(n, f) ==
    [i \in 1..n |-> Drone(IdsOfDrones[i], "DJI M300", CapsOfDrones[i],
                          f[i][1], f[i][2], NoId, f[i][3])]

CheckPilots ==
    {<<>>}
    \cup {<<Pilot("P001", "Arjun", sk, ce, loc, "Available", NoId, av)>> :
            sk \in SUBSET Skills, ce \in SUBSET Certs, loc \in Locations,
            av \in 0..MaxDate}

CheckDrones ==
    {<<>>}
    \cup {<<Drone("D001", "DJI M300", {"RGB"}, "Available", loc, NoId, md)>> :
            loc \in Locations, md \in 0..MaxDate}

InitMatchPilots ==
    /\ \/ /\ missions \in {<<m>> : m \in MatchMissions}
          /\ pilots \in PilotLists
       \/ /\ missions \in {<<m>> : m \in RankMissions}
          /\ \E n \in 2..MaxPilots : \E f \in [1..n -> RankAttrs] :
               pilots = RankedPilotList(n, f)
    /\ drones = <<>>
    /\ result = [op |-> "none"]
    /\ faults = 0
    /\ svc = NewService
    /\ now = 0
    /\ local = NoFiles

FindMatchingPilots ==
    /\ \E r \in {find_matching_pilots(missions[1], pilots)} :
         result' = [op |-> "find_matching_pilots",
                    raised |-> r.raised, value |-> r.value]
    /\ UNCHANGED <<missions, pilots, drones, faults, svc, now, local>>

SpecPilots == InitMatchPilots /\ [][FindMatchingPilots]_vars

InitMatchDrones ==
    /\ missions \in {<<m>> : m \in RankMissions}
    /\ pilots = <<>>
    /\ \E n \in 0..MaxDrones : \E f \in [1..n -> DroneAttrs] :
         drones = DroneList(n, f)
    /\ result = [op |-> "none"]
    /\ faults = 0
    /\ svc = NewService
    /\ now = 0
    /\ local = NoFiles

FindMatchingDrones ==
    /\ result' = [op |-> "find_matching_drones",
                  value |-> find_matching_drones(missions[1], drones)]
    /\ UNCHANGED <<missions, pilots, drones, faults, svc, now, local>>

SpecDrones == InitMatchDrones /\ [][FindMatchingDrones]_vars

InitCheck ==
    /\ missions \in {<<m>> : m \in MatchMissions}
    /\ pilots \in CheckPilots
    /\ drones \in CheckDrones
    /\ result = [op |-> "none"]
    /\ faults = 0
    /\ svc = NewService
    /\ now = 0
    /\ local = NoFiles

CheckAssignmentConflicts ==
    /\ result' = [op |-> "check_assignment_conflicts",
                  value |-> check_assignment_conflicts(missions[1], pilots, drones)]
    /\ UNCHANGED <<missions, pilots, drones, faults, svc, now, local>>

SpecCheck == InitCheck /\ [][CheckAssignmentConflicts]_vars

(***************************************************************************)
(* Properties of the matching engine and the per-assignment check          *)
(***************************************************************************)
(* the five conditions of the matching contract, on the argument mission *)
Qualifies(p, m) ==
    /\ p.status = "Available"
    /\ p.location = m.location
    /\ (p.available_from = NoDate \/ p.available_from <= m.start_date)
    /\ m.required_skills \subseteq p.skills
    /\ m.required_certs \subseteq p.certifications

(* C5: for every mission and pilot list, find_matching_pilots returns a    *)
(* list that holds each input pilot meeting the five conditions exactly    *)
(* once and no other pilot.                                                *)
C5_MatchingPilotsIff ==
    result.op = "find_matching_pilots" =>
      /\ ~result.raised
      /\ \A i \in 1..Len(pilots) :
           Count(result.value, LAMBDA p : p = pilots[i]) =
             (IF Qualifies(pilots[i], missions[1]) THEN 1 ELSE 0)
      /\ \A k \in 1..Len(result.value) : result.value[k] \in Range(pilots)

(* C9: find_matching_pilots does not raise for a mission that requires no  *)
(* skill, and returns every pilot that passes the other filters.           *)
C9_EmptySkillsNoRaise ==
    (result.op = "find_matching_pilots" /\ missions[1].required_skills = {}) =>
      /\ ~result.raised
      /\ \A i \in 1..Len(pilots) :
           Qualifies(pilots[i], missions[1]) => pilots[i] \in Range(result.value)

(* position of a returned pilot in the input list *)
InputIndex(p) == CHOOSE k \in 1..Len(pilots) : pilots[k] = p

(* C10: the list find_matching_pilots returns is in non-increasing order   *)
(* of match score, and pilots of equal score keep their input order.       *)
C10_RankedStable ==
    (result.op = "find_matching_pilots" /\ ~result.raised) =>
      \A i, j \in 1..Len(result.value) :
        i < j =>
          LET si == _calculate_pilot_match_score(result.value[i], missions[1])
              sj == _calculate_pilot_match_score(result.value[j], missions[1])
          IN  /\ si >= sj
              /\ si = sj => InputIndex(result.value[i]) < InputIndex(result.value[j])

(* three pilots returned: the best came last in the input, the other two   *)
(* tie and keep their input order                                          *)
C10_Witness ==
    /\ result.op = "find_matching_pilots"
    /\ ~result.raised
    /\ Len(pilots) = 3
    /\ Len(result.value) = 3
    /\ result.value = <<pilots[3], pilots[1], pilots[2]>>
    /\ _calculate_pilot_match_score(pilots[1], missions[1]) =
         _calculate_pilot_match_score(pilots[2], missions[1])
    /\ _calculate_pilot_match_score(pilots[3], missions[1]) >
         _calculate_pilot_match_score(pilots[1], missions[1])

(* C7: check_assignment_conflicts returns nothing when the pilot or the    *)
(* drone is absent; otherwise exactly one conflict per violated            *)
(* constraint (skills, certifications, pilot location, drone location,     *)
(* maintenance due on or before the end date, available-from after the     *)
(* start date), with its type and severity, the skill and certification    *)
(* conflicts naming all missing items, and nothing else.                   *)
C7_CheckAssignmentConflicts ==
    result.op = "check_assignment_conflicts" =>
      IF pilots = <<>> \/ drones = <<>>
      THEN result.value = <<>>
      ELSE
        LET m == missions[1]
            p == pilots[1]
            d == drones[1]
            cs == result.value
            N(type, severity, tmpl) ==
              Count(cs, LAMBDA c : c.type = type /\ c.severity = severity
                                   /\ c.message.tmpl = tmpl)
            B(cond) == IF cond THEN 1 ELSE 0
            skill == m.required_skills \ p.skills # {}
            cert == m.required_certs \ p.certifications # {}
            ploc == p.location # m.location
            dloc == d.location # m.location
            maint == d.maintenance_due # NoDate /\ d.maintenance_due <= m.end_date
            avail == p.available_from # NoDate /\ p.available_from > m.start_date
        IN  /\ N("skill_mismatch", "high", "pilot lacks required skills") = B(skill)
            /\ N("certification_mismatch", "high",
                 "pilot lacks required certifications") = B(cert)
            /\ N("location_mismatch", "medium", "pilot is in, but mission is in") = B(ploc)
            /\ N("location_mismatch", "medium", "drone is in, but mission is in") = B(dloc)
            /\ N("maintenance_conflict", "high",
                 "drone requires maintenance during mission") = B(maint)
            /\ N("availability_conflict", "high",
                 "pilot is only available from, but mission starts on") = B(avail)
            /\ Len(cs) = B(skill) + B(cert) + B(ploc) + B(dloc) + B(maint) + B(avail)
            /\ \A k \in 1..Len(cs) :
                 /\ cs[k].type = "skill_mismatch" =>
                      cs[k].message.items = m.required_skills \ p.skills
                 /\ cs[k].type = "certification_mismatch" =>
                      cs[k].message.items = m.required_certs \ p.certifications

(* all six conflicts at once, two skills missing, maintenance due on the   *)
(* mission's end date                                                      *)
C7_Witness ==
    /\ result.op = "check_assignment_conflicts"
    /\ Len(result.value) = 6
    /\ Cardinality(result.value[1].message.items) = 2
    /\ drones[1].maintenance_due = missions[1].end_date

(* C8: find_matching_drones returns, in input order, exactly the drones    *)
(* that are Available, at the mission's location, and whose maintenance    *)
(* date is unset or after the mission's end date; capabilities do not      *)
(* matter.                                                                 *)
C8_MatchingDronesIff ==
    result.op = "find_matching_drones" =>
      result.value =
        SelectSeq(drones, LAMBDA d :
          /\ d.status = "Available"
          /\ d.location = missions[1].location
          /\ (d.maintenance_due = NoDate \/ d.maintenance_due > missions[1].end_date))

(* two drones of different capabilities returned in input order, and one   *)
(* between them left out for maintenance due on the mission's end date     *)
C8_Witness ==
    /\ result.op = "find_matching_drones"
    /\ Len(drones) = 3
    /\ drones[2].status = "Available"
    /\ drones[2].location = missions[1].location
    /\ drones[2].maintenance_due = missions[1].end_date
    /\ result.value = <<drones[1], drones[3]>>
    /\ drones[1].capabilities # drones[3].capabilities

(* C11: a pilot returned for a mission with required skills scores, in     *)
(* hundredths, 40 + 30 + 15 plus a timing bonus of 15 when available_from  *)
(* is set and start_date - available_from <= 3, 10 when it is set and the  *)
(* gap is larger, 0 when it is unset; the score lies in 0..100 and no      *)
(* pilot without an available_from date precedes one with a date.          *)
C11_ScoreOfSurvivor ==
    (result.op = "find_matching_pilots" /\ ~result.raised
     /\ missions[1].required_skills # {}) =>
      /\ \A k \in 1..Len(result.value) :
           LET p == result.value[k]
               gap == missions[1].start_date - p.available_from
               bonus == IF p.available_from = NoDate THEN 0
                        ELSE IF gap <= 3 THEN 15 ELSE 10
               score == _calculate_pilot_match_score(p, missions[1])
           IN  /\ score = 40 + 30 + 15 + bonus
               /\ score \in 0..100
      /\ \A i, j \in 1..Len(result.value) :
           i < j => ~(/\ result.value[i].available_from = NoDate
                      /\ result.value[j].available_from # NoDate)

(* an undated pilot came first in the input and is returned last, behind   *)
(* a pilot available more than three days early and one available on time *)
C11_Witness ==
    /\ result.op = "find_matching_pilots"
    /\ ~result.raised
    /\ missions[1].required_skills # {}
    /\ Len(pilots) = 3
    /\ pilots[1].available_from = NoDate
    /\ missions[1].start_date - pilots[2].available_from > 3
    /\ pilots[3].available_from = missions[1].start_date
    /\ result.value = <<pilots[3], pilots[2], pilots[1]>>

(***************************************************************************)
(* Urgent reassignment (coordinator_agent.py:111-145, 315-372)             *)
(***************************************************************************)
(* priority_levels.get(priority, 0) *)
priority_levels(priority) ==
    CASE priority = "Urgent" -> 4
      [] priority = "High" -> 3
      [] priority = "Standard" -> 2
      [] priority = "Low" -> 1
      [] OTHER -> 0

(* the difference taken the other way round *)
_get_priority_difference_swapped(priority1, priority2) ==
    priority_levels(priority2) - priority_levels(priority1)

_get_priority_difference(priority1, priority2) ==
    priority_levels(priority1) - priority_levels(priority2)

Option(mission, pilot, drone, priority_difference) ==
    [mission_to_delay |-> mission.project_id,
     pilot |-> pilot.pilot_id,
     drone |-> drone.drone_id,
     priority_difference |-> priority_difference]

(* the mission filter of lines 324-328 *)
LowerPriorityHeld(m) ==
    /\ m.priority \in {"Standard", "Low"}
    /\ m.assigned_pilot # NoId
    /\ m.assigned_drone # NoId

(* one turn of the loop of lines 330-346: raised tells that the score of   *)
(* the held pilot divided by zero, hit that an option is appended          *)
ProbeMission(urgent_mission, mission, all_pilots, all_drones) ==
    LET pilot == First(all_pilots, LAMBDA p : p.pilot_id = mission.assigned_pilot)
        drone == First(all_drones, LAMBDA d : d.drone_id = mission.assigned_drone)
    IN  IF pilot = <<>> \/ drone = <<>>
        THEN [raised |-> FALSE, hit |-> FALSE, option |-> <<>>]
        ELSE LET matching_pilots == find_matching_pilots(urgent_mission, pilot)
                 matching_drones == find_matching_drones(urgent_mission, drone)
             IN  IF matching_pilots.raised
                 THEN [raised |-> TRUE, hit |-> FALSE, option |-> <<>>]
                 ELSE IF matching_pilots.value # <<>> /\ matching_drones # <<>>
                 THEN [raised |-> FALSE, hit |-> TRUE,
                       option |-> <<Option(mission, pilot[1], drone[1],
                                     _get_priority_difference(urgent_mission.priority,
                                                              mission.priority))>>]
                 ELSE [raised |-> FALSE, hit |-> FALSE, option |-> <<>>]

(* the dict _find_reassignment_options returns, or raised when the loop    *)
(* was left by ZeroDivisionError                                           *)
_find_reassignment_options(urgent_mission, all_missions, all_pilots, all_drones) ==
    LET lower_priority_missions == SelectSeq(all_missions, LowerPriorityHeld)
        probes == [i \in 1..Len(lower_priority_missions) |->
                     ProbeMission(urgent_mission, lower_priority_missions[i],
                                  all_pilots, all_drones)]
        raised == \E i \in 1..Len(probes) : probes[i].raised
        options == Flatten([i \in 1..Len(probes) |-> probes[i].option])
        keyed == [i \in 1..Len(options) |-> <<options[i], options[i].priority_difference>>]
        sorted == SortByScoreDesc(keyed)
    IN  IF raised
        THEN [raised |-> TRUE, success |-> FALSE, reassignment_options |-> <<>>,
              error |-> Error("division by zero", <<>>)]
        ELSE IF options # <<>>
        THEN [raised |-> FALSE, success |-> TRUE,
              reassignment_options |-> [i \in 1..Len(sorted) |-> sorted[i][1]],
              error |-> NoError]
        ELSE [raised |-> FALSE, success |-> FALSE, reassignment_options |-> <<>>,
              error |-> Error("No reassignment options found", <<>>)]

(* what handle_urgent_reassignment returns, with the path it took, the     *)
(* assign_mission calls it made and what the last of them returned         *)
Urgent(urgent_mission_id, path, success, error, assign_calls, assigned, options) ==
    [op |-> "handle_urgent_reassignment", urgent_mission_id |-> urgent_mission_id,
     path |-> path, success |-> success, error |-> error,
     assign_calls |-> assign_calls, assigned |-> assigned,
     reassignment_options |-> options]

(* a cascade that unassigns every lower-priority mission it scanned *)
CascadePathPreempt(store, urgent_mission) ==
    LET found == _find_reassignment_options(urgent_mission, store.missions,
                                            store.pilots, store.drones)
    IN  [ret |-> Urgent(urgent_mission.project_id, "cascade", found.success,
                        found.error, <<>>, <<>>, found.reassignment_options),
         store |-> Store([i \in 1..Len(store.missions) |->
                            IF LowerPriorityHeld(store.missions[i])
                            THEN [store.missions[i] EXCEPT !.assigned_pilot = NoId,
                                                           !.assigned_drone = NoId]
                            ELSE store.missions[i]],
                         store.pilots, store.drones)]

(* lines 127-129: the cascade only reads *)
CascadePath(store, urgent_mission) ==
    LET found == _find_reassignment_options(urgent_mission, store.missions,
                                            store.pilots, store.drones)
    IN  IF found.raised
        THEN [ret |-> Urgent(urgent_mission.project_id, "raised", FALSE,
                             found.error, <<>>, <<>>, <<>>),
              store |-> store]
        ELSE [ret |-> Urgent(urgent_mission.project_id, "cascade", found.success,
                             found.error, <<>>, <<>>, found.reassignment_options),
              store |-> store]

(* the last element instead of the first *)
BestOfLast(ranked) == ranked[Len(ranked)]

(* lines 132-133: available_pilots[0], available_drones[0] *)
BestOf(ranked) == ranked[1]

handle_urgent_reassignment(store, urgent_mission_id, fault) ==
    LET urgent_mission == get_mission(store, urgent_mission_id)
    IN  IF urgent_mission = <<>>
        THEN [ret |-> Urgent(urgent_mission_id, "not_found", FALSE,
                             Error("Urgent mission not found", <<>>), <<>>, <<>>, <<>>),
              store |-> store]
        ELSE LET available_pilots == find_matching_pilots(urgent_mission[1], store.pilots)
                 available_drones == find_matching_drones(urgent_mission[1], store.drones)
             IN  IF available_pilots.raised
                 THEN [ret |-> Urgent(urgent_mission_id, "raised", FALSE,
                                      Error("division by zero", <<>>), <<>>, <<>>, <<>>),
                       store |-> store]
                 ELSE IF available_pilots.value = <<>> \/ available_drones = <<>>
                 THEN CascadePath(store, urgent_mission[1])
                 ELSE LET best_pilot == BestOf(available_pilots.value)
                          best_drone == BestOf(available_drones)
                          r == assign_mission(store, urgent_mission_id,
                                              best_pilot.pilot_id, best_drone.drone_id,
                                              fault)
                      IN  [ret |-> Urgent(urgent_mission_id, "assign", r.ret.success,
                                          r.ret.error,
                                          << <<urgent_mission_id, best_pilot.pilot_id,
                                               best_drone.drone_id>> >>,
                                          <<r.ret>>, <<>>),
                           store |-> r.store]

(***************************************************************************)
(* Urgent reassignment over a store.  PRJ001 is the mission to staff; the  *)
(* other two missions vary in priority and in the pilot and drone they     *)
(* hold, the pilots and drones in status, place and dates.                 *)
(***************************************************************************)
HeldBy(ms, field, id) ==
    LET holders == SelectSeq(ms, LAMBDA m : m[field] = id)
    IN  IF holders = <<>> THEN NoId ELSE Head(holders).project_id

UrgentMissionRows(prio2, held2, held3) ==
    << Mission("PRJ001", "Client A", "Bangalore", {"mapping"}, {"DGCA"},
               3, 4, "Urgent", NoId, NoId),
       Mission("PRJ002", "Client B", "Bangalore", {"mapping"}, {"DGCA"},
               3, 4, prio2, held2[1], held2[2]),
       Mission("PRJ003", "Client C", "Bangalore", {"mapping"}, {"DGCA"},
               5, 6, "Low", held3[1], held3[2]) >>

UrgentPilotRows(ms, status1, loc1, status2, avail2) ==
    << Pilot("P001", "Arjun", Skills, Certs, loc1, status1,
             HeldBy(ms, "assigned_pilot", "P001"), NoDate),
       Pilot("P002", "Neha", Skills, Certs, "Bangalore", status2,
             HeldBy(ms, "assigned_pilot", "P002"), avail2) >>

UrgentDroneRows(ms, status1, maint1, status2) ==
    << Drone("D001", "DJI M300", {"RGB"}, status1, "Bangalore",
             HeldBy(ms, "assigned_drone", "D001"), maint1),
       Drone("D002", "DJI Mavic 3", {"Thermal"}, status2, "Bangalore",
             HeldBy(ms, "assigned_drone", "D002"), NoDate) >>

InitUrgent ==
    /\ \E prio2 \in {"High", "Standard"},
          held2 \in {<<NoId, NoId>>, <<"P001", "D001">>},
          held3 \in {<<"P002", "D002">>} :
         /\ missions = UrgentMissionRows(prio2, held2, held3)
         /\ \E status1, status2 \in {"Available", "Assigned"},
               loc1 \in Locations, avail2 \in {3} :
              pilots = UrgentPilotRows(missions, status1, loc1, status2, avail2)
         /\ \E status1, status2 \in {"Available", "In Use"}, maint1 \in {NoDate, 4} :
              drones = UrgentDroneRows(missions, status1, maint1, status2)
    /\ result = [op |-> "none"]
    /\ faults = 0
    /\ svc = NewService
    /\ now = 0
    /\ local = Store(missions, pilots, drones)

UrgentCalls == {"PRJ001", "PRJ002", "PRJ003", "PRJ999"}

(* the call reaches assign_mission, and with it the store write *)
UrgentReachesWrite(store, urgent_mission_id) ==
    \E r \in {handle_urgent_reassignment(store, urgent_mission_id, NoFault)} :
      r.ret.path = "assign"

(* CoordinatorAgent.handle_urgent_reassignment, called by                  *)
(* _handle_urgent_assignment                                               *)
HandleUrgentReassignment ==
    \E urgent_mission_id \in UrgentCalls :
      \E fault \in (IF UrgentReachesWrite(CurrentStore, urgent_mission_id)
                    THEN FaultsLeft ELSE {NoFault}) :
        \E r \in {handle_urgent_reassignment(CurrentStore, urgent_mission_id, fault)} :
          /\ missions' = r.store.missions
          /\ pilots' = r.store.pilots
          /\ drones' = r.store.drones
          /\ result' = r.ret
          /\ faults' = IF fault # NoFault THEN faults + 1 ELSE faults
          /\ UNCHANGED <<svc, now, local>>

SpecUrgent == InitUrgent /\ [][HandleUrgentReassignment]_vars

(***************************************************************************)
(* The cascading search on bounded arguments: missions holds all_missions, *)
(* pilots and drones the roster and the fleet; the urgent mission is drawn *)
(* by the step and kept in the result.                                     *)
(***************************************************************************)
CascadePriorities == {"High", "Standard", "Low"}
CascadeHeld == {<<NoId, NoId>>, <<"P001", "D001">>, <<"P002", "D002">>}
CascadeAttrs == CascadePriorities \X CascadeHeld

CascadeMissions(f) ==
    [i \in 1..3 |->
       Mission(<<"PRJ002", "PRJ003", "PRJ004">>[i], "Client B", "Mumbai",
               {"thermal"}, {}, 1, 2, f[i][1], f[i][2][1], f[i][2][2])]

(* P002 may be missing from the roster or stand in another place *)
CascadePilots ==
    {<<Pilot("P001", "Arjun", Skills, Certs, "Bangalore", status1, NoId, NoDate)>>
       \o second :
         status1 \in {"Available", "Assigned"},
         second \in {<<>>}
                    \cup {<<Pilot("P002", "Neha", Skills, Certs, loc2,
                                  "Available", NoId, NoDate)>> : loc2 \in Locations}}

CascadeDrones ==
    {<<Drone("D001", "DJI M300", {"RGB"}, status1, "Bangalore", NoId, NoDate),
       Drone("D002", "DJI Mavic 3", {"Thermal"}, "Available", "Bangalore", NoId, maint2)>> :
       status1 \in {"Available", "In Use"}, maint2 \in {NoDate, 4}}

CascadeUrgentMissions ==
    {Mission("PRJ001", "Client A", "Bangalore", sk, Certs, 3, 4, prio, NoId, NoId) :
       sk \in {{}, {"mapping"}}, prio \in {"Urgent", "High", "Standard"}}

InitCascade ==
    /\ \E f \in [1..3 -> CascadeAttrs] : missions = CascadeMissions(f)
    /\ pilots \in CascadePilots
    /\ drones \in CascadeDrones
    /\ result = [op |-> "none"]
    /\ faults = 0
    /\ svc = NewService
    /\ now = 0
    /\ local = NoFiles

FindReassignmentOptions ==
    /\ \E urgent_mission \in CascadeUrgentMissions :
         \E r \in {_find_reassignment_options(urgent_mission, missions, pilots, drones)} :
           result' = [op |-> "_find_reassignment_options",
                      urgent_mission |-> urgent_mission,
                      raised |-> r.raised, success |-> r.success,
                      reassignment_options |-> r.reassignment_options,
                      error |-> r.error]
    /\ UNCHANGED <<missions, pilots, drones, faults, svc, now, local>>

SpecCascade == InitCascade /\ [][FindReassignmentOptions]_vars

(***************************************************************************)
(* Properties of urgent reassignment                                       *)
(***************************************************************************)
(* the drone conditions of the matching contract *)
Feasible(d, m) ==
    /\ d.status = "Available"
    /\ d.location = m.location
    /\ (d.maintenance_due = NoDate \/ d.maintenance_due > m.end_date)

(* C12: handle_urgent_reassignment fails and writes nothing for an unknown *)
(* mission; when some pilot and some drone are feasible it calls           *)
(* assign_mission exactly once, with the top-ranked pilot and the first    *)
(* feasible drone, and returns that call's result without the cascading    *)
(* search; the cascading search runs iff no pilot or no drone is feasible. *)
C12_UrgentAssignsTopPair ==
    [][result'.op = "handle_urgent_reassignment" =>
       \E m \in {get_mission(CurrentStore, result'.urgent_mission_id)} :
         IF m = <<>>
         THEN /\ ~result'.success
              /\ result'.path = "not_found"
              /\ result'.assign_calls = <<>>
              /\ UNCHANGED <<missions, pilots, drones>>
         ELSE \E qp \in {SelectSeq(pilots, LAMBDA p : Qualifies(p, m[1]))},
                 qd \in {SelectSeq(drones, LAMBDA d : Feasible(d, m[1]))} :
                /\ (result'.path = "cascade") <=> (qp = <<>> \/ qd = <<>>)
                /\ (qp # <<>> /\ qd # <<>>) =>
                     /\ result'.path = "assign"
                     /\ Len(result'.assign_calls) = 1
                     /\ \E c \in {result'.assign_calls[1]} :
                          /\ c[1] = result'.urgent_mission_id
                          /\ \E i \in 1..Len(qp) :
                               /\ qp[i].pilot_id = c[2]
                               /\ \A j \in 1..Len(qp) :
                                    LET si == _calculate_pilot_match_score(qp[i], m[1])
                                        sj == _calculate_pilot_match_score(qp[j], m[1])
                                    IN  sj < si \/ (sj = si /\ j >= i)
                          /\ c[3] = qd[1].drone_id
                          /\ \E fault \in Faults :
                               \E r \in {assign_mission(CurrentStore, c[1], c[2], c[3], fault)} :
                                 /\ result'.assigned = <<r.ret>>
                                 /\ missions' = r.store.missions
                                 /\ pilots' = r.store.pilots
                                 /\ drones' = r.store.drones
                     /\ result'.success = result'.assigned[1].success
                     /\ result'.error = result'.assigned[1].error
                     /\ result'.reassignment_options = <<>>
    ]_vars

(* the pair was committed: the second pilot of the roster outranked the    *)
(* first, which also qualifies, and the first drone of the fleet was       *)
(* passed over for maintenance                                             *)
C12_Witness ==
    /\ result.op = "handle_urgent_reassignment"
    /\ result.path = "assign"
    /\ result.success
    /\ result.assign_calls = << <<"PRJ001", "P002", "D002">> >>
    /\ pilots[1].status = "Available"
    /\ pilots[1].location = missions[1].location
    /\ drones[1].status = "Available"
    /\ drones[1].maintenance_due = missions[1].end_date
    /\ missions[1].assigned_pilot = "P002"

(* a mission the cascade must offer for delay *)
Delayable(m, urgent_mission) ==
    /\ m.priority \in {"Standard", "Low"}
    /\ m.assigned_pilot # NoId
    /\ m.assigned_drone # NoId
    /\ \E p \in Range(pilots) :
         p.pilot_id = m.assigned_pilot /\ Qualifies(p, urgent_mission)
    /\ \E d \in Range(drones) :
         d.drone_id = m.assigned_drone /\ Feasible(d, urgent_mission)

(* C13: the cascading search returns one option, carrying the mission's    *)
(* id, pilot id and drone id, for exactly the missions of priority         *)
(* Standard or Low that hold a pilot and a drone of the roster and fleet   *)
(* which pass the urgent mission's filters, and fails with "No             *)
(* reassignment options found" iff there is no such mission.               *)
C13_CascadeOptions ==
    result.op = "_find_reassignment_options" =>
      /\ ~result.raised
      /\ \A i \in 1..Len(missions) :
           Count(result.reassignment_options,
                 LAMBDA o : /\ o.mission_to_delay = missions[i].project_id
                            /\ o.pilot = missions[i].assigned_pilot
                            /\ o.drone = missions[i].assigned_drone) =
             (IF Delayable(missions[i], result.urgent_mission) THEN 1 ELSE 0)
      /\ Len(result.reassignment_options) =
           Cardinality({i \in 1..Len(missions) :
                          Delayable(missions[i], result.urgent_mission)})
      /\ result.success <=>
           \E i \in 1..Len(missions) : Delayable(missions[i], result.urgent_mission)
      /\ ~result.success =>
           result.error = Error("No reassignment options found", <<>>)

(* position in all_missions of the mission an option delays *)
MissionIndex(o) == CHOOSE i \in 1..Len(missions) : missions[i].project_id = o.mission_to_delay

(* C14: the options come in non-increasing order of priority gap, the gap  *)
(* being rank(urgent priority) - rank(candidate priority) with Urgent=4,   *)
(* High=3, Standard=2, Low=1; an option delaying a Low mission precedes    *)
(* one delaying a Standard mission, and equal gaps keep mission order.     *)
C14_OptionsByPriorityGap ==
    result.op = "_find_reassignment_options" =>
      LET Rank(priority) == IF priority = "Urgent" THEN 4
                            ELSE IF priority = "High" THEN 3
                            ELSE IF priority = "Standard" THEN 2
                            ELSE IF priority = "Low" THEN 1 ELSE 0
          opts == result.reassignment_options
          Gap(o) == Rank(result.urgent_mission.priority)
                    - Rank(missions[MissionIndex(o)].priority)
      IN  /\ \A k \in 1..Len(opts) : opts[k].priority_difference = Gap(opts[k])
          /\ \A i, j \in 1..Len(opts) :
               i < j =>
                 /\ Gap(opts[i]) >= Gap(opts[j])
                 /\ Gap(opts[i]) = Gap(opts[j]) =>
                      MissionIndex(opts[i]) < MissionIndex(opts[j])
                 /\ ~(/\ missions[MissionIndex(opts[i])].priority = "Standard"
                      /\ missions[MissionIndex(opts[j])].priority = "Low")

(* three options: the two Low missions, in mission order, ahead of the     *)
(* Standard mission that comes first in all_missions                       *)
C14_Witness ==
    /\ result.op = "_find_reassignment_options"
    /\ missions[1].priority = "Standard"
    /\ missions[2].priority = "Low"
    /\ missions[3].priority = "Low"
    /\ Len(result.reassignment_options) = 3
    /\ result.reassignment_options[1].mission_to_delay = missions[2].project_id
    /\ result.reassignment_options[2].mission_to_delay = missions[3].project_id
    /\ result.reassignment_options[3].mission_to_delay = missions[1].project_id

(* C15: when handle_urgent_reassignment takes the cascade path, whatever   *)
(* the search returns, no mission, pilot or drone record changes and no    *)
(* assignment or store write is issued.                                    *)
C15_CascadeNeverPreempts ==
    [][(result'.op = "handle_urgent_reassignment" /\ result'.path = "cascade") =>
         /\ UNCHANGED <<missions, pilots, drones>>
         /\ result'.assign_calls = <<>>
         /\ result'.assigned = <<>>
    ]_vars

(* the cascade ran over a store in which a Standard and a Low mission each *)
(* hold a pilot and a drone                                                *)
C15_Witness ==
    /\ result.op = "handle_urgent_reassignment"
    /\ result.path = "cascade"
    /\ result.urgent_mission_id = "PRJ001"
    /\ missions[2].priority = "Standard"
    /\ missions[2].assigned_pilot = "P001"
    /\ missions[2].assigned_drone = "D001"
    /\ missions[3].assigned_pilot = "P002"
    /\ missions[1].assigned_pilot = NoId

(***************************************************************************)
(* Cached reads over time: the module-level service of main.py:36 serves   *)
(* GET /pilots, /drones, /missions; the clock moves between requests.      *)
(***************************************************************************)
MaxSteps == 2

(* request times: a few steps shorter than the window, today and a day on *)
TimeStep == 2 * (CacheWindow \div 3)

Instants == {k * TimeStep + d * SecondsPerDay : k \in 0..MaxSteps, d \in 0..1}

ReadOps == {"get_pilots", "get_drones", "get_missions"}

Read(op, r, time) ==
    [op |-> op, rows |-> r.rows, source |-> r.source, loaded_at |-> r.loaded_at,
     at |-> time]

InitCacheAge ==
    /\ missions = StoreMissions
    /\ pilots = StorePilots
    /\ drones = StoreDrones
    /\ result = [op |-> "none"]
    /\ faults = 0
    /\ svc = NewService
    /\ now = 0
    /\ local = Store(missions, pilots, drones)

Tick ==
    /\ \E t \in Instants : t > now /\ now' = t
    /\ UNCHANGED <<missions, pilots, drones, result, faults, svc, local>>

GetPilots ==
    \E open \in BOOLEAN :
      \E r \in {get_pilots(svc, CurrentStore, local, now, open)} :
        /\ result' = Read("get_pilots", r, now)
        /\ svc' = r.svc
        /\ UNCHANGED <<missions, pilots, drones, faults, now, local>>

GetDrones ==
    \E open \in BOOLEAN :
      \E r \in {get_drones(svc, CurrentStore, local, now, open)} :
        /\ result' = Read("get_drones", r, now)
        /\ svc' = r.svc
        /\ UNCHANGED <<missions, pilots, drones, faults, now, local>>

GetMissions ==
    \E open \in BOOLEAN :
      \E r \in {get_missions(svc, CurrentStore, local, now, open)} :
        /\ result' = Read("get_missions", r, now)
        /\ svc' = r.svc
        /\ UNCHANGED <<missions, pilots, drones, faults, now, local>>

NextCacheAge ==
    \/ Tick
    \/ GetPilots
    \/ GetDrones
    \/ GetMissions

SpecCacheAge == InitCacheAge /\ [][NextCacheAge]_vars

(* C16: a read served from the cache never returns rows that were loaded   *)
(* from the store more than 300 seconds before the read.                   *)
C16_CachedReadWithinWindow ==
    (result.op \in ReadOps /\ result.source = "cache")
        => result.at - result.loaded_at <= CacheWindow

(***************************************************************************)
(* The request handlers over the module-level service (main.py:36-39) with *)
(* its cache, the clock, and the local files.  The specifications above    *)
(* take every read from the worksheets; here each handler reads through    *)
(* get_pilots, get_drones and get_missions as the code does.               *)
(***************************************************************************)
ServiceMissions ==
    << Mission("PRJ001", "Client A", "Bangalore", {"mapping"}, {"DGCA"},
               1, 2, "Urgent", NoId, NoId) >>

ServicePilots ==
    << Pilot("P001", "Arjun", {"mapping"}, {"DGCA"}, "Bangalore",
             "Available", NoId, 1),
       Pilot("P002", "Neha", {"mapping"}, {"DGCA"}, "Mumbai",
             "Available", NoId, 1) >>

ServiceDrones ==
    << Drone("D001", "DJI M300", {"RGB"}, "Available", "Bangalore", NoId, MaxDate) >>

(* upload_to_sheets.py fills the worksheets from the local files: both     *)
(* start with the same rows                                                *)
InitService ==
    /\ missions = ServiceMissions
    /\ pilots = ServicePilots
    /\ drones = ServiceDrones
    /\ result = [op |-> "none"]
    /\ faults = 0
    /\ svc = NewService
    /\ now = 0
    /\ local = Store(missions, pilots, drones)

ServiceProjects == {"PRJ001", "PRJ999"}
ServicePilotIds == {"P001", "P002", "P999"}
ServiceDroneIds == {"D001", "D999"}
StatusPilotIds == {"P001", "P999"}

(* the statuses a request can carry; the chat handler's keywords are       *)
(* available, on leave, unavailable, assigned (coordinator_agent.py:228)   *)
PilotStatuses == {"Available", "Assigned"}
DroneStatuses == {"Maintenance"}

(* what can go wrong in a write: the worksheet cannot be opened, or the    *)
(* at-th update_cell raises                                                *)
ServiceFaults(sheet, at) ==
    IF faults < MaxFaults
    THEN {NoFault, [kind |-> "unavailable", sheet |-> sheet, at |-> 0],
          [kind |-> "raise", sheet |-> "", at |-> at]}
    ELSE {NoFault}

(* what a mutating handler returned, and whether the roster was cached    *)
(* when the handler began                                                  *)
Mutated(op, args, success, validated, service) ==
    [op |-> op, args |-> args, success |-> success, validated |-> validated,
     had_pilots |-> service._pilots_cache # <<>>]

(* the freshness window passes between two requests *)
WindowPasses ==
    /\ now < CacheWindow
    /\ now' = now + CacheWindow
    /\ UNCHANGED <<missions, pilots, drones, result, faults, svc, local>>

(* CoordinatorAgent.assign_mission reading through the cache: the three    *)
(* reads, the checks on what was read, the write on the worksheets, and    *)
(* the cache reset of a write that did not raise                           *)
assign_mission_cached(service, store, files, time, project_id, pilot_id, drone_id, fault) ==
    LET rm == get_missions(service, store, files, time, TRUE)
        rp == get_pilots(rm.svc, store, files, time, TRUE)
        rd == get_drones(rp.svc, store, files, time, TRUE)
        view == Store(rm.rows, rp.rows, rd.rows)
        checked == assign_mission(view, project_id, pilot_id, drone_id, NoFault)
        written == assign_to_mission(store, project_id, pilot_id, drone_id, fault)
    IN  IF ~checked.ret.store_called
        THEN [success |-> FALSE, validated |-> FALSE, store |-> store, svc |-> rd.svc]
        ELSE [success |-> written.ok, validated |-> TRUE, store |-> written.store,
              svc |-> IF written.ok THEN ClearAllCaches(rd.svc) ELSE rd.svc]

(* POST /assign with the given ids; the at-th update_cell may raise *)
AssignVia(project_ids, pilot_ids, drone_ids, at) ==
    \E project_id \in project_ids, pilot_id \in pilot_ids, drone_id \in drone_ids :
      \E fault \in ServiceFaults("pilot_roster", at) :
        \E r \in {assign_mission_cached(svc, CurrentStore, local, now,
                                        project_id, pilot_id, drone_id, fault)} :
          /\ (fault # NoFault => r.validated)
          /\ missions' = r.store.missions
          /\ pilots' = r.store.pilots
          /\ drones' = r.store.drones
          /\ svc' = r.svc
          /\ result' = Mutated("assign_mission", <<project_id, pilot_id, drone_id>>,
                               r.success, r.validated, svc)
          /\ faults' = IF fault # NoFault THEN faults + 1 ELSE faults
          /\ UNCHANGED <<now, local>>

AssignResources == AssignVia(ServiceProjects, ServicePilotIds, ServiceDroneIds, 4)

(* ConflictDetector.check_pilot_conflicts reads the pilot, and the         *)
(* missions when the pilot exists; its conflicts go into the response      *)
check_pilot_conflicts_reads(service, store, files, time, pilot_id) ==
    LET rp == get_pilots(service, store, files, time, TRUE)
    IN  IF \E i \in 1..Len(rp.rows) : rp.rows[i].pilot_id = pilot_id
        THEN get_missions(rp.svc, store, files, time, TRUE).svc
        ELSE rp.svc

(* PUT /pilots/{pilot_id}/status *)
PutPilotStatus ==
    \E pilot_id \in StatusPilotIds, status \in PilotStatuses :
      \E fault \in ServiceFaults("pilot_roster", 1) :
        \E u \in {update_pilot_status(svc, CurrentStore, local, pilot_id, status, fault)} :
          /\ pilots' = u.store.pilots
          /\ local' = u.local
          /\ svc' = IF u.ok
                    THEN check_pilot_conflicts_reads(u.svc, u.store, u.local, now, pilot_id)
                    ELSE u.svc
          /\ result' = Mutated("update_pilot_status", <<pilot_id, status>>, u.ok, TRUE, svc)
          /\ faults' = IF fault # NoFault THEN faults + 1 ELSE faults
          /\ UNCHANGED <<missions, drones, now>>

(* POST /chat -> CoordinatorAgent._handle_pilot_status_update: the pilot   *)
(* is looked up in get_pilots(), the first keyword found gives the status  *)
ChatPilotStatus ==
    \E pilot_id \in StatusPilotIds, status \in PilotStatuses :
      \E fault \in ServiceFaults("pilot_roster", 1) :
        \E rp \in {get_pilots(svc, CurrentStore, local, now, TRUE)} :
          IF \E i \in 1..Len(rp.rows) : rp.rows[i].pilot_id = pilot_id
          THEN \E u \in {update_pilot_status(rp.svc, CurrentStore, local,
                                             pilot_id, status, fault)} :
                 /\ pilots' = u.store.pilots
                 /\ local' = u.local
                 /\ svc' = u.svc
                 /\ result' = Mutated("update_pilot_status", <<pilot_id, status>>,
                                      u.ok, TRUE, svc)
                 /\ faults' = IF fault # NoFault THEN faults + 1 ELSE faults
                 /\ UNCHANGED <<missions, drones, now>>
          ELSE /\ fault = NoFault
               /\ svc' = rp.svc
               /\ result' = Mutated("update_pilot_status", <<pilot_id, status>>,
                                    FALSE, FALSE, svc)
               /\ UNCHANGED <<missions, pilots, drones, faults, now, local>>

(* InventoryManager.update_drone_status on the module-level service *)
UpdateDroneStatus ==
    \E drone_id \in ServiceDroneIds, status \in DroneStatuses :
      \E fault \in ServiceFaults("drone_fleet", 1) :
        \E u \in {update_drone_status(svc, CurrentStore, local, drone_id, status, fault)} :
          /\ drones' = u.store.drones
          /\ local' = u.local
          /\ svc' = u.svc
          /\ result' = Mutated("update_drone_status", <<drone_id, status>>, u.ok, TRUE, svc)
          /\ faults' = IF fault # NoFault THEN faults + 1 ELSE faults
          /\ UNCHANGED <<missions, pilots, now>>

(* PUT /assignments/{project_id}/reassign (main.py:368-432).  The handler  *)
(* builds its own SheetsService and never authenticates it: every          *)
(* worksheet of that instance is unavailable, its reads come from the      *)
(* local files and its writes find no worksheet.                           *)
reassign_mission(store, files, time, project_id, new_pilot_id, new_drone_id) ==
    LET fresh == NewService
        rm == get_missions(fresh, store, files, time, SheetOpen(NoClient, "missions"))
        mission == get_mission(Store(rm.rows, <<>>, <<>>), project_id)
        rp == get_pilots(rm.svc, store, files, time, SheetOpen(NoClient, "pilot_roster"))
        rd == get_drones(rp.svc, store, files, time, SheetOpen(NoClient, "drone_fleet"))
        new_pilot == get_pilot(Store(<<>>, rp.rows, <<>>), new_pilot_id)
        new_drone == get_drone(Store(<<>>, <<>>, rd.rows), new_drone_id)
        Out(success, validated, detail, st, fl) ==
          [success |-> success, validated |-> validated, detail |-> detail,
           store |-> st, local |-> fl]
    IN  IF mission = <<>>
        THEN Out(FALSE, FALSE, "Mission not found", store, files)
        ELSE IF new_pilot = <<>>
        THEN Out(FALSE, FALSE, "Pilot not found", store, files)
        ELSE IF new_drone = <<>>
        THEN Out(FALSE, FALSE, "Drone not found", store, files)
        ELSE IF check_assignment_conflicts(mission[1], new_pilot, new_drone) # <<>>
        THEN Out(FALSE, FALSE, "Reassignment conflicts", store, files)
        ELSE LET old_pilot_id == mission[1].assigned_pilot
                 old_drone_id == mission[1].assigned_drone
                 written == assign_to_mission(store, project_id, new_pilot_id,
                                              new_drone_id, NoClient)
                 svc1 == ClearAllCaches(rd.svc)
                 up == IF old_pilot_id # NoId
                       THEN update_pilot_status(svc1, written.store, files,
                                                old_pilot_id, "Available", NoClient)
                       ELSE [ok |-> TRUE, store |-> written.store, svc |-> svc1,
                             local |-> files]
                 ud == IF old_drone_id # NoId
                       THEN update_drone_status(up.svc, up.store, up.local,
                                                old_drone_id, "Available", NoClient)
                       ELSE up
             IN  IF written.ok
                 THEN Out(TRUE, TRUE, "Successfully reassigned", ud.store, ud.local)
                 ELSE Out(FALSE, TRUE, "Failed to update assignment in sheets",
                          written.store, files)

ReassignMission ==
    \E project_id \in ServiceProjects, pilot_id \in ServicePilotIds,
       drone_id \in ServiceDroneIds :
      \E r \in {reassign_mission(CurrentStore, local, now, project_id, pilot_id, drone_id)} :
        /\ missions' = r.store.missions
        /\ pilots' = r.store.pilots
        /\ drones' = r.store.drones
        /\ local' = r.local
        /\ result' = Mutated("reassign_mission", <<project_id, pilot_id, drone_id>>,
                             r.success, r.validated, svc)
        /\ UNCHANGED <<faults, svc, now>>

(* the requests of one freshness window: no cache expires by itself *)
NextService ==
    \/ GetPilots
    \/ GetDrones
    \/ GetMissions
    \/ AssignResources
    \/ PutPilotStatus
    \/ ChatPilotStatus
    \/ UpdateDroneStatus
    \/ ReassignMission

SpecService == InitService /\ [][NextService]_vars

MutationOps ==
    {"update_pilot_status", "update_drone_status", "assign_mission", "reassign_mission"}

(* a cache that cannot serve rows older than the given ones *)
NotStale(cache, rows) == cache = <<>> \/ cache[1].rows = rows

(* C17: after a mutation that returned success, the cache of every sheet   *)
(* it changed is empty or was reloaded after the change, so that no later  *)
(* read returns a copy of the changed records cached before it; and a read *)
(* served from the cache returns what the cache holds.                     *)
C17_MutationInvalidatesCache ==
    [][ /\ (result'.op \in MutationOps /\ result'.success)
           => /\ pilots' # pilots => NotStale(svc'._pilots_cache, pilots')
              /\ drones' # drones => NotStale(svc'._drones_cache, drones')
              /\ missions' # missions => NotStale(svc'._missions_cache, missions')
        /\ (result'.op = "get_pilots" /\ result'.source = "cache"
            /\ result' # result)
           => result'.rows = svc._pilots_cache[1].rows
      ]_vars

(* a successful status update of a pilot whose roster was cached, fresh,   *)
(* when the request came; the handler's own read afterwards reloaded it    *)
C17_Witness ==
    /\ result.op = "update_pilot_status"
    /\ result.success
    /\ result.had_pilots
    /\ \E i \in 1..Len(pilots) : pilots[i].status = "Assigned"
    /\ svc._pilots_cache # <<>>
    /\ svc._pilots_cache[1].rows = pilots
    /\ svc._drones_cache # <<>>

(* C18: in every reachable state a pilot whose status is Assigned has a    *)
(* current assignment set.                                                 *)
C18_AssignedHasAssignment ==
    \A i \in 1..Len(pilots) :
      pilots[i].status = "Assigned" => pilots[i].current_assignment # NoId

(* the status of the row with the given id, "" when there is none *)
StatusOf(rows, idField, key) ==
    IF \E i \in 1..Len(rows) : rows[i][idField] = key
    THEN rows[CHOOSE i \in 1..Len(rows) : rows[i][idField] = key].status
    ELSE ""

(* C19: a reassignment that returns success has moved the mission to the   *)
(* new pilot and drone and freed the pilot and drone the mission held      *)
(* before to Available; a reassignment that fails validation changes no    *)
(* mission, pilot or drone.                                                *)
C19_ReassignMovesAndFrees ==
    [][ (result'.op = "reassign_mission" /\ result' # result)
        => LET held == get_mission(CurrentStore, result'.args[1])
               now_held == get_mission(Store(missions', pilots', drones'),
                                       result'.args[1])
           IN  /\ result'.success
                  => /\ now_held # <<>>
                     /\ now_held[1].assigned_pilot = result'.args[2]
                     /\ now_held[1].assigned_drone = result'.args[3]
                     /\ (held # <<>> /\ held[1].assigned_pilot \notin {NoId, result'.args[2]})
                        => StatusOf(pilots', "pilot_id", held[1].assigned_pilot)
                             = "Available"
                     /\ (held # <<>> /\ held[1].assigned_drone \notin {NoId, result'.args[3]})
                        => StatusOf(drones', "drone_id", held[1].assigned_drone)
                             = "Available"
               /\ ~result'.validated => UNCHANGED <<missions, pilots, drones>>
      ]_vars

(***************************************************************************)
(* GET /conflicts on the module-level service, between assignments and     *)
(* over time                                                               *)
(***************************************************************************)
(* ConflictDetector.detect_all_conflicts with its three reads *)
detect_all_conflicts_cached(service, store, files, time) ==
    LET rm == get_missions(service, store, files, time, TRUE)
        rp == get_pilots(rm.svc, store, files, time, TRUE)
        rd == get_drones(rp.svc, store, files, time, TRUE)
    IN  [conflicts |-> detect_all_conflicts(rm.rows, rp.rows, rd.rows),
         svc |-> rd.svc]

InitDetect ==
    /\ missions = StoreMissions
    /\ pilots = StorePilots
    /\ drones = StoreDrones
    /\ result = [op |-> "none"]
    /\ faults = 0
    /\ svc = NewService
    /\ now = 0
    /\ local = Store(missions, pilots, drones)

GetConflicts ==
    \E r \in {detect_all_conflicts_cached(svc, CurrentStore, local, now)} :
      /\ result' = [op |-> "detect_all_conflicts", conflicts |-> r.conflicts, at |-> now]
      /\ svc' = r.svc
      /\ UNCHANGED <<missions, pilots, drones, faults, now, local>>

AssignBetween == AssignVia({"PRJ001", "PRJ002"}, {"P001", "P002"}, {"D001"}, 3)

NextDetect ==
    \/ WindowPasses
    \/ AssignBetween
    \/ GetConflicts

SpecDetect == InitDetect /\ [][NextDetect]_vars

SameMultiset(a, b) ==
    \A x \in Range(a) \cup Range(b) :
      Cardinality({i \in DOMAIN a : a[i] = x}) = Cardinality({i \in DOMAIN b : b[i] = x})

(* C20: a run of detect_all_conflicts changes no mission, pilot or drone,  *)
(* and two consecutive runs with no mutation in between return the same    *)
(* multiset of conflicts.                                                  *)
C20_DetectIdempotent ==
    [][ /\ (result'.op = "detect_all_conflicts" /\ result' # result)
           => UNCHANGED <<missions, pilots, drones>>
        /\ (result.op = "detect_all_conflicts" /\ result'.op = "detect_all_conflicts")
           => SameMultiset(result.conflicts, result'.conflicts)
      ]_vars

(***************************************************************************)
(* The two date-overlap predicates on bounded arguments: missions holds    *)
(* the two ranges.                                                         *)
(***************************************************************************)
(* an overlap test that looks at one side only *)
dates_overlap_one_sided(start1, end1, start2, end2) ==
    start1 <= end2

(* date_utils.py:48-50 *)
dates_overlap(start1, end1, start2, end2) ==
    start1 <= end2 /\ start2 <= end1

DateRange(start, end) == [start_date |-> start, end_date |-> end]

InitOverlap ==
    /\ \E a, b, c, d \in 1..MaxDate : missions = <<DateRange(a, b), DateRange(c, d)>>
    /\ pilots = <<>>
    /\ drones = <<>>
    /\ result = [op |-> "none"]
    /\ faults = 0
    /\ svc = NewService
    /\ now = 0
    /\ local = NoFiles

(* both predicates on the two ranges, in both orders, and on the first     *)
(* range against itself                                                    *)
DatesOverlap ==
    /\ \E r1 \in {missions[1]}, r2 \in {missions[2]} :
         result' = [op |-> "dates_overlap",
                    detector |-> _dates_overlap(r1.start_date, r1.end_date,
                                                r2.start_date, r2.end_date),
                    detector_swapped |-> _dates_overlap(r2.start_date, r2.end_date,
                                                        r1.start_date, r1.end_date),
                    detector_self |-> _dates_overlap(r1.start_date, r1.end_date,
                                                     r1.start_date, r1.end_date),
                    utils |-> dates_overlap(r1.start_date, r1.end_date,
                                            r2.start_date, r2.end_date),
                    utils_swapped |-> dates_overlap(r2.start_date, r2.end_date,
                                                    r1.start_date, r1.end_date),
                    utils_self |-> dates_overlap(r1.start_date, r1.end_date,
                                                 r1.start_date, r1.end_date)]
    /\ UNCHANGED <<missions, pilots, drones, faults, svc, now, local>>

SpecOverlap == InitOverlap /\ [][DatesOverlap]_vars

(* C21: each overlap predicate gives the same answer with the two ranges   *)
(* swapped, says that a range with start <= end overlaps itself, and the   *)
(* detector's predicate agrees with the date utilities' on every input.    *)
C21_OverlapSymmetricReflexive ==
    result.op = "dates_overlap"
        => /\ result.detector = result.detector_swapped
           /\ result.utils = result.utils_swapped
           /\ (missions[1].start_date <= missions[1].end_date
               => result.detector_self /\ result.utils_self)
           /\ result.detector = result.utils

(* two different ranges that share exactly one day *)
C21_Witness ==
    /\ result.op = "dates_overlap"
    /\ missions[1].start_date < missions[1].end_date
    /\ missions[1].end_date = missions[2].start_date
    /\ missions[2].start_date < missions[2].end_date
    /\ result.detector
    /\ result.utils_swapped

(***************************************************************************)
(* Error reporting of the coordinator                                      *)
(***************************************************************************)
(* C22: a conflict failure of assign_mission carries, for every conflict   *)
(* check_assignment_conflicts found, its type, its severity and its        *)
(* message.                                                                *)
C22_ConflictFailureStructured ==
    (result.op = "assign_mission" /\ ~result.success
     /\ result.error.text = "Assignment conflicts detected")
        => \E conflicts \in {check_assignment_conflicts(
                               get_mission(CurrentStore, result.project_id)[1],
                               get_pilot(CurrentStore, result.pilot_id),
                               get_drone(CurrentStore, result.drone_id))} :
             /\ Len(result.error.detail) = Len(conflicts)
             /\ \A i \in 1..Len(conflicts) :
                  /\ DOMAIN result.error.detail[i] = {"type", "severity", "message"}
                  /\ result.error.detail[i] = conflicts[i]

(* A statement inside the try block of assign_mission or of                *)
(* handle_urgent_reassignment raises an exception that is none of the      *)
(* foreseen failures (a collaborator read, a comparison, ...).             *)
InternalError == [kind |-> "internal", sheet |-> "", at |-> 0]

(* what the caller receives: the dict the method returned.  A failure has  *)
(* the error text and the values formatted into it.                        *)
Dict(success, error) == [kind |-> "dict", success |-> success, error |-> error]

(* str(e) of the exception: its own message, no value of the call in it *)
StrOf(exception) == Error(exception, <<>>)

(* coordinator_agent.py:64-109 with the handler of lines 107-109 *)
assign_mission_try(store, project_id, pilot_id, drone_id, fault) ==
    IF fault.kind = "internal"
    THEN [returned |-> Dict(FALSE, StrOf("internal error")), store |-> store]
    ELSE LET r == assign_mission(store, project_id, pilot_id, drone_id, fault)
         IN  [returned |-> Dict(r.ret.success, r.ret.error), store |-> r.store]

(* the store fault of a call: none when the call ends in an internal error *)
StoreFaultOf(fault) == IF fault.kind = "internal" THEN NoFault ELSE fault

(* what handle_urgent_reassignment returns when it ran as far as r: the    *)
(* nested assign_mission turns an error raised inside it into a failure    *)
(* dict of its own, which is returned as it is                             *)
UrgentReturned(r, store, inner_error) ==
    IF inner_error /\ r.ret.path = "assign"
    THEN [returned |-> Dict(FALSE, StrOf("internal error")), store |-> store]
    ELSE [returned |-> Dict(r.ret.success, r.ret.error), store |-> r.store]

(* coordinator_agent.py:111-145 with the handler of lines 143-145; the     *)
(* error is raised in the method itself, or inside the nested              *)
(* assign_mission                                                          *)
handle_urgent_reassignment_try(store, urgent_mission_id, fault, inner) ==
    IF fault.kind = "internal" /\ ~inner
    THEN [returned |-> Dict(FALSE, StrOf("internal error")), store |-> store]
    ELSE UrgentReturned(handle_urgent_reassignment(store, urgent_mission_id,
                                                   StoreFaultOf(fault)),
                        store, fault.kind = "internal")

(* the outcome of a call: its name and arguments, whether an internal      *)
(* error was raised in it, and what the caller received                    *)
Outcome(op, ids, internal, returned) ==
    [op |-> op, ids |-> ids, internal |-> internal, returned |-> returned]

ErrorFaults ==
    IF faults < MaxFaults
    THEN {NoFault, InternalError, [kind |-> "raise", sheet |-> "", at |-> 1]}
    ELSE {NoFault}

ErrorCalls ==
    {<<"PRJ001", "P001", "D001">>, <<"PRJ002", "P002", "D002">>,
     <<"PRJ001", "P002", "D001">>, <<"PRJ999", "P001", "D001">>}

AssignMissionTry ==
    \E call \in ErrorCalls :
      \E fault \in ErrorFaults :
        \E r \in {assign_mission_try(CurrentStore, call[1], call[2], call[3], fault)} :
          /\ missions' = r.store.missions
          /\ pilots' = r.store.pilots
          /\ drones' = r.store.drones
          /\ result' = Outcome("assign_mission", call, fault.kind = "internal", r.returned)
          /\ faults' = IF fault # NoFault THEN faults + 1 ELSE faults
          /\ UNCHANGED <<svc, now, local>>

HandleUrgentTry ==
    \E urgent_mission_id \in {"PRJ001", "PRJ003", "PRJ999"} :
      \E fault \in ErrorFaults, inner \in BOOLEAN :
        \E r \in {handle_urgent_reassignment_try(CurrentStore, urgent_mission_id,
                                                 fault, inner)} :
          /\ missions' = r.store.missions
          /\ pilots' = r.store.pilots
          /\ drones' = r.store.drones
          /\ result' = Outcome("handle_urgent_reassignment", <<urgent_mission_id>>,
                               fault.kind = "internal", r.returned)
          /\ faults' = IF fault # NoFault THEN faults + 1 ELSE faults
          /\ UNCHANGED <<svc, now, local>>

NextErrors ==
    \/ AssignMissionTry
    \/ HandleUrgentTry

SpecErrors == Init /\ [][NextErrors]_vars

(* the failures the methods foresee *)
ForeseenFailures ==
    {"Mission not found", "Pilot not found", "Drone not found",
     "Urgent mission not found", "Assignment conflicts detected",
     "Failed to update assignment in sheets", "No reassignment options found"}

(* C23: an internal error raised while assign_mission or                   *)
(* handle_urgent_reassignment runs reaches the caller as an error that is  *)
(* none of the foreseen failures and that names the operation and the ids  *)
(* of the call.                                                            *)
C23_InternalErrorPropagates ==
    (result.op \in {"assign_mission", "handle_urgent_reassignment"} /\ result.internal)
        => /\ ~(result.returned.kind = "dict" /\ result.returned.success)
           /\ result.returned.error.text \notin ForeseenFailures
           /\ result.op \in Range(result.returned.error.detail)
           /\ \A k \in 1..Len(result.ids) :
                result.ids[k] \in Range(result.returned.error.detail)

(***************************************************************************)
(* GET-side scan of one pilot: ConflictDetector.check_pilot_conflicts      *)
(* (conflict_detector.py:234-261), next to the pilot part of               *)
(* check_double_bookings                                                   *)
(***************************************************************************)
(* ms and ps are what get_missions() and get_pilots() return; get_pilot    *)
(* is the first roster row with that id                                    *)
check_pilot_conflicts(ms, ps, pilot_id) ==
    LET pilot == First(ps, LAMBDA p : p.pilot_id = pilot_id)
        assigned_missions == SelectSeq(ms, LAMBDA m : m.assigned_pilot = pilot_id)
        hits == SelectSeq(PairsInOrder(assigned_missions),
                  LAMBDA pr : _dates_overlap(pr[1].start_date, pr[1].end_date,
                                             pr[2].start_date, pr[2].end_date))
    IN  IF pilot = <<>> THEN <<>>
        ELSE [i \in 1..Len(hits) |->
                Conflict("double_booking", "critical",
                  Message("pilot has overlapping assignments",
                          <<pilot[1].name, hits[i][1].project_id, hits[i][2].project_id>>,
                          {}, <<>>))]

(* the mission pairs of the pilot double bookings in a conflict list whose *)
(* message names one of the labels (the pilot's name, or the id where the  *)
(* roster has no row)                                                      *)
PilotPairs(conflicts, tmpl, labels) ==
    LET hits == SelectSeq(conflicts, LAMBDA c :
                  /\ c.type = "double_booking"
                  /\ c.message.tmpl = tmpl
                  /\ c.message.names[1] \in labels)
    IN  [i \in 1..Len(hits) |-> <<hits[i].message.names[2], hits[i].message.names[3]>>]

LabelsOf(ps, pilot_id) ==
    {pilot_id} \cup {ps[i].name : i \in {k \in 1..Len(ps) : ps[k].pilot_id = pilot_id}}

(* the windows and holders of the three missions on the sheet *)
ScanWindows == {<<1, 2>>, <<2, 3>>, <<4, 5>>}
ScanHolders == {NoId, "P001", "P002"}

ScanMission(k, window, holder) ==
    [StoreMissions[k] EXCEPT !.start_date = window[1], !.end_date = window[2],
                             !.assigned_pilot = holder]

(* the roster as get_pilots() returns it: every row, the sheet with the    *)
(* row of P002 removed, or [] where neither the worksheet nor the local    *)
(* file could be read (sheets_service.py:112-114, 343-372)                 *)
ScanRosters == {StorePilots, SubSeq(StorePilots, 1, 1), <<>>}

InitScan ==
    /\ \E w2 \in ScanWindows, w3 \in ScanWindows :
         \E h1 \in ScanHolders, h2 \in ScanHolders, h3 \in ScanHolders :
           missions = << ScanMission(1, <<1, 2>>, h1), ScanMission(2, w2, h2),
                         ScanMission(3, w3, h3) >>
    /\ pilots \in ScanRosters
    /\ drones = StoreDrones
    /\ result = [op |-> "none"]
    /\ faults = 0
    /\ svc = NewService
    /\ now = 0
    /\ local = NoFiles

(* the scan of main.py:180 and GET /conflicts over the same reads *)
CheckPilotConflicts ==
    \E pilot_id \in {"P001", "P002"} :
      /\ result' = [op |-> "check_pilot_conflicts", pilot_id |-> pilot_id,
                    conflicts |-> check_pilot_conflicts(missions, pilots, pilot_id),
                    all |-> detect_all_conflicts(missions, pilots, drones)]
      /\ UNCHANGED <<missions, pilots, drones, faults, svc, now, local>>

SpecScan == InitScan /\ [][CheckPilotConflicts]_vars

(* C24: check_pilot_conflicts(pilot_id) reports the same mission pairs as  *)
(* the pilot double bookings of detect_all_conflicts for that pilot id,    *)
(* and nothing about another pilot or a drone.                             *)
C24_PilotScanIsNarrowedDoubleBooking ==
    result.op = "check_pilot_conflicts"
    => /\ PilotPairs(result.conflicts, "pilot has overlapping assignments",
                     LabelsOf(pilots, result.pilot_id))
          = PilotPairs(result.all, "pilot double-booked on overlapping missions",
                       LabelsOf(pilots, result.pilot_id))
       /\ \A i \in 1..Len(result.conflicts) :
            /\ result.conflicts[i].type = "double_booking"
            /\ result.conflicts[i].message.tmpl = "pilot has overlapping assignments"
            /\ result.conflicts[i].message.names[1] \in LabelsOf(pilots, result.pilot_id)

(***************************************************************************)
(* Feasibility against the per-assignment check: the lists of              *)
(* find_matching_pilots and find_matching_drones for the one mission of    *)
(* the store, and handle_urgent_reassignment taking the first of each      *)
(* (coordinator_agent.py:124-141)                                          *)
(***************************************************************************)
FeasiblePilots ==
    {Pilot("P001", "Arjun", sk, ce, loc, st, NoId, av) :
       sk \in SUBSET Skills, ce \in SUBSET Certs, loc \in Locations,
       st \in {"Available", "Assigned"}, av \in DroneDates}

InitFeasible ==
    /\ missions \in {<<m>> : m \in MatchMissions}
    /\ pilots \in {<<p>> : p \in FeasiblePilots}
    /\ \E f \in [1..1 -> DroneAttrs] : drones = DroneList(1, f)
    /\ result = [op |-> "none"]
    /\ faults = 0
    /\ svc = NewService
    /\ now = 0
    /\ local = NoFiles

(* every pair of a matching pilot and a matching drone, with the verdict   *)
(* of check_assignment_conflicts on it                                     *)
FeasiblePairs(mission, ps, ds) ==
    [i \in 1..Len(ps) |->
       [j \in 1..Len(ds) |->
          [pilot_id |-> ps[i].pilot_id, drone_id |-> ds[j].drone_id,
           conflicts |-> check_assignment_conflicts(mission, <<ps[i]>>, <<ds[j]>>)]]]

FindFeasible ==
    /\ \E r \in {find_matching_pilots(missions[1], pilots)} :
         result' = [op |-> "feasible", raised |-> r.raised,
                    pairs |-> Flatten(FeasiblePairs(missions[1], r.value,
                                find_matching_drones(missions[1], drones)))]
    /\ UNCHANGED <<missions, pilots, drones, faults, svc, now, local>>

UrgentDirect ==
    \E r \in {handle_urgent_reassignment(CurrentStore, "PRJ001", NoFault)} :
      /\ missions' = r.store.missions
      /\ pilots' = r.store.pilots
      /\ drones' = r.store.drones
      /\ result' = r.ret
      /\ UNCHANGED <<faults, svc, now, local>>

NextFeasible ==
    \/ FindFeasible
    \/ UrgentDirect

SpecFeasible == InitFeasible /\ [][NextFeasible]_vars

(* C25: a pilot of find_matching_pilots and a drone of find_matching_drones *)
(* for a mission give no conflict in check_assignment_conflicts, so the    *)
(* assign_mission of the direct path of handle_urgent_reassignment never   *)
(* fails with the conflict error.                                          *)
C25_FeasibleImpliesNoConflict ==
    /\ result.op = "feasible"
       => \A i \in 1..Len(result.pairs) : result.pairs[i].conflicts = <<>>
    /\ (result.op = "handle_urgent_reassignment" /\ result.path = "assign")
       => result.error.text # "Assignment conflicts detected"

(* the direct path took the first matching pilot and drone and assigned *)
C25_Witness ==
    /\ result.op = "handle_urgent_reassignment"
    /\ result.path = "assign"
    /\ result.success
    /\ result.assign_calls = << <<"PRJ001", "P001", "D001">> >>

(***************************************************************************)
(* Assignments and reassignments in sequence: POST /assign and             *)
(* PUT /assignments/{project_id}/reassign on one store, with the statuses  *)
(* of the pilots and drones the missions hold                              *)
(***************************************************************************)
HeldMissions ==
    << Mission("PRJ001", "Client A", "Bangalore", {"mapping"}, {"DGCA"},
               1, 2, "Urgent", NoId, NoId),
       Mission("PRJ002", "Client B", "Bangalore", {"mapping"}, {"DGCA"},
               3, 4, "Standard", NoId, NoId) >>

HeldPilots ==
    << Pilot("P001", "Arjun", {"mapping"}, {"DGCA"}, "Bangalore", "Available", NoId, 1),
       Pilot("P002", "Neha", {"mapping"}, {"DGCA"}, "Bangalore", "Available", NoId, 1) >>

HeldDrones ==
    << Drone("D001", "DJI M300", {"RGB"}, "Available", "Bangalore", NoId, MaxDate),
       Drone("D002", "DJI Mavic 3", {"RGB"}, "Available", "Bangalore", NoId, MaxDate) >>

InitHeld ==
    /\ missions = HeldMissions
    /\ pilots = HeldPilots
    /\ drones = HeldDrones
    /\ result = [op |-> "none", all_ok |-> TRUE]
    /\ faults = 0
    /\ svc = NewService
    /\ now = 0
    /\ local = Store(missions, pilots, drones)

HeldCalls == {"PRJ001", "PRJ002"} \X {"P001", "P002"} \X {"D001", "D002"}

(* a worksheet that cannot be opened, or the pilot-status update_cell      *)
(* raising                                                                 *)
HeldFaults ==
    IF faults < MaxFaults
    THEN {NoFault, [kind |-> "unavailable", sheet |-> "pilot_roster", at |-> 0],
          [kind |-> "unavailable", sheet |-> "drone_fleet", at |-> 0],
          [kind |-> "raise", sheet |-> "", at |-> 4]}
    ELSE {NoFault}

(* what the operation returned, and whether every operation so far         *)
(* returned success                                                        *)
ReturnedSoFar(op, args, success) ==
    [op |-> op, args |-> args, success |-> success,
     all_ok |-> result.all_ok /\ success]

AssignHeld ==
    \E call \in HeldCalls, fault \in HeldFaults :
      \E r \in {assign_mission(CurrentStore, call[1], call[2], call[3], fault)} :
        /\ missions' = r.store.missions
        /\ pilots' = r.store.pilots
        /\ drones' = r.store.drones
        /\ result' = ReturnedSoFar("assign_mission", call, r.ret.success)
        /\ faults' = IF fault # NoFault THEN faults + 1 ELSE faults
        /\ UNCHANGED <<svc, now, local>>

ReassignHeld ==
    \E call \in HeldCalls :
      \E r \in {reassign_mission(CurrentStore, local, now, call[1], call[2], call[3])} :
        /\ missions' = r.store.missions
        /\ pilots' = r.store.pilots
        /\ drones' = r.store.drones
        /\ local' = r.local
        /\ result' = ReturnedSoFar("reassign_mission", call, r.success)
        /\ UNCHANGED <<faults, svc, now>>

NextHeld ==
    \/ AssignHeld
    \/ ReassignHeld

SpecHeld == InitHeld /\ [][NextHeld]_vars

(* C26: after a sequence of assign_mission and reassignment operations     *)
(* that each returned success, every pilot some mission holds has status   *)
(* Assigned and every drone some mission holds has status In Use.          *)
C26_HeldResourcesMarked ==
    (result.op # "none" /\ result.all_ok)
    => \A i \in 1..Len(missions) :
         /\ missions[i].assigned_pilot # NoId
            => StatusOf(pilots, "pilot_id", missions[i].assigned_pilot) = "Assigned"
         /\ missions[i].assigned_drone # NoId
            => StatusOf(drones, "drone_id", missions[i].assigned_drone) = "In Use"

(***************************************************************************)
(* The cascading search after assignments: from a store with no mission    *)
(* assigned, POST /assign with every write applied, then the search of     *)
(* _find_reassignment_options for the urgent mission and the whole         *)
(* handle_urgent_reassignment                                              *)
(***************************************************************************)
AssignFull ==
    \E call \in HeldCalls :
      \E r \in {assign_mission(CurrentStore, call[1], call[2], call[3], NoFault)} :
        /\ missions' = r.store.missions
        /\ pilots' = r.store.pilots
        /\ drones' = r.store.drones
        /\ result' = ReturnedSoFar("assign_mission", call, r.ret.success)
        /\ UNCHANGED <<faults, svc, now, local>>

CascadeSearch ==
    /\ \E r \in {_find_reassignment_options(missions[1], missions, pilots, drones)} :
         result' = [op |-> "_find_reassignment_options", all_ok |-> result.all_ok,
                    raised |-> r.raised, success |-> r.success,
                    reassignment_options |-> r.reassignment_options,
                    error |-> r.error]
    /\ UNCHANGED <<missions, pilots, drones, faults, svc, now, local>>

UrgentAfterAssign ==
    \E r \in {handle_urgent_reassignment(CurrentStore, "PRJ001", NoFault)} :
      /\ missions' = r.store.missions
      /\ pilots' = r.store.pilots
      /\ drones' = r.store.drones
      /\ result' = [r.ret EXCEPT !.op = "handle_urgent_reassignment"]
                     @@ [all_ok |-> result.all_ok /\ (r.ret.path = "assign" => r.ret.success)]
      /\ UNCHANGED <<faults, svc, now, local>>

NextAfterAssign ==
    \/ AssignFull
    \/ CascadeSearch
    \/ UrgentAfterAssign

SpecAfterAssign == InitHeld /\ [][NextAfterAssign]_vars

(* C27: in a state reached from a store with no assigned mission by        *)
(* assign_mission calls whose writes were applied in full, the cascading   *)
(* search finds no option and reports that none was found, since every     *)
(* pilot a mission holds is Assigned and every drone a mission holds is In *)
(* Use.                                                                    *)
C27_CascadeFindsNothing ==
    /\ result.op = "_find_reassignment_options"
       => /\ ~result.raised
          /\ ~result.success
          /\ result.reassignment_options = <<>>
          /\ result.error.text = "No reassignment options found"
    /\ (result.op = "handle_urgent_reassignment" /\ result.path = "cascade")
       => /\ ~result.success
          /\ result.reassignment_options = <<>>
          /\ result.error.text = "No reassignment options found"
    /\ \A i \in 1..Len(missions) :
         /\ missions[i].assigned_pilot # NoId
            => StatusOf(pilots, "pilot_id", missions[i].assigned_pilot) = "Assigned"
         /\ missions[i].assigned_drone # NoId
            => StatusOf(drones, "drone_id", missions[i].assigned_drone) = "In Use"

(* the search ran while the lower-priority mission held a pilot and a      *)
(* drone that would fit the urgent mission but for their status            *)
C27_Witness ==
    /\ result.op = "_find_reassignment_options"
    /\ ~result.success
    /\ LowerPriorityHeld(missions[2])
    /\ missions[1].assigned_pilot = NoId

(***************************************************************************)
(* How often detect_all_conflicts reports one problem of one mission: the  *)
(* per-assignment pass and the scans over a store of two missions, one     *)
(* pilot and one drone                                                     *)
(***************************************************************************)
CountHolders == {<<NoId, NoId>>, <<"P001", NoId>>, <<NoId, "D001">>, <<"P001", "D001">>}

CountMissions(held1, held2) ==
    << Mission("PRJ001", "Client A", "Bangalore", Skills, Certs, 2, 3, "High",
               held1[1], held1[2]),
       Mission("PRJ002", "Client B", "Mumbai", {"mapping"}, {}, 5, 6, "Low",
               held2[1], held2[2]) >>

CountPilots ==
    {Pilot("P001", "Arjun", sk, ce, loc, "Assigned", NoId, av) :
       sk \in SUBSET Skills, ce \in SUBSET Certs, loc \in Locations,
       av \in {NoDate, 2, 3}}

CountDrones ==
    {Drone("D001", "DJI M300", {"RGB"}, "In Use", loc, NoId, md) :
       loc \in Locations, md \in {NoDate, 3, 4}}

InitCounts ==
    /\ \E held1 \in CountHolders, held2 \in {<<NoId, NoId>>, <<"P001", "D001">>} :
         missions = CountMissions(held1, held2)
    /\ pilots \in {<<p>> : p \in CountPilots}
    /\ drones \in {<<d>> : d \in CountDrones}
    /\ result = [op |-> "none"]
    /\ faults = 0
    /\ svc = NewService
    /\ now = 0
    /\ local = NoFiles

DetectCounts ==
    /\ result' = [op |-> "detect_all_conflicts",
                  conflicts |-> detect_all_conflicts(missions, pilots, drones)]
    /\ UNCHANGED <<missions, pilots, drones, faults, svc, now, local>>

SpecCounts == InitCounts /\ [][DetectCounts]_vars

(* the conflicts of a type about a mission whose message starts with the   *)
(* given name (the pilot's name or the drone's id)                         *)
Reported(conflicts, type, mission, first) ==
    Cardinality({k \in 1..Len(conflicts) :
                   /\ conflicts[k].type = type
                   /\ conflicts[k].message.names[1] = first
                   /\ mission.project_id \in Range(conflicts[k].message.names)})

Times(problem, n) == IF problem THEN n ELSE 0

(* C28: for a mission with a pilot and a drone assigned and present,       *)
(* detect_all_conflicts reports a certification gap twice, a pilot         *)
(* location mismatch twice, a drone location mismatch twice, a maintenance *)
(* overlap twice, a skill gap once and a late available_from once; for a   *)
(* mission with only a pilot or only a drone it reports the certification, *)
(* location and maintenance problems once and no skill or availability     *)
(* problem.                                                                *)
C28_ConflictMultiplicities ==
    result.op = "detect_all_conflicts"
    => \A i \in 1..Len(missions) :
         LET m == missions[i]
             p == pilots[1]
             d == drones[1]
             has_p == m.assigned_pilot = p.pilot_id
             has_d == m.assigned_drone = d.drone_id
             both == has_p /\ has_d
             passes == IF both THEN 2 ELSE 1
             cert_gap == has_p /\ m.required_certs \ p.certifications # {}
             skill_gap == has_p /\ m.required_skills \ p.skills # {}
             pilot_away == has_p /\ p.location # m.location
             drone_away == has_d /\ d.location # m.location
             maintenance == has_d /\ d.maintenance_due # NoDate
                            /\ d.maintenance_due <= m.end_date
             late == has_p /\ p.available_from # NoDate
                     /\ p.available_from > m.start_date
             N(type, first) == Reported(result.conflicts, type, m, first)
         IN  /\ N("certification_mismatch", p.name) = Times(cert_gap, passes)
             /\ N("location_mismatch", p.name) = Times(pilot_away, passes)
             /\ N("location_mismatch", d.drone_id) = Times(drone_away, passes)
             /\ N("maintenance_conflict", d.drone_id) = Times(maintenance, passes)
             /\ N("skill_mismatch", p.name) = Times(skill_gap /\ both, 1)
             /\ N("availability_conflict", p.name) = Times(late /\ both, 1)

(* a mission with both assigned that has every problem at once, next to a  *)
(* scan result                                                             *)
C28_Witness ==
    /\ result.op = "detect_all_conflicts"
    /\ missions[1].assigned_pilot = "P001"
    /\ missions[1].assigned_drone = "D001"
    /\ missions[2].assigned_pilot = NoId
    /\ pilots[1].certifications = {}
    /\ pilots[1].skills = {}
    /\ pilots[1].location = "Mumbai"
    /\ pilots[1].available_from = 3
    /\ drones[1].location = "Mumbai"
    /\ drones[1].maintenance_due = 3
    /\ Len(result.conflicts) = 10

(***************************************************************************)
(* Two assign_mission calls for one mission in flight at once.  result     *)
(* holds the two calls: the ids each was given and its position, 0 before  *)
(* the reads and checks of coordinator_agent.py:66-89, k in 1..6 before    *)
(* the k-th update_cell of assign_to_mission, 7 after the last one, and    *)
(* whether it has returned and with what.  Nothing in the code orders the  *)
(* update_cell calls of two callers of the same worksheets.                *)
(***************************************************************************)
LastCell == 6

(* the k-th update_cell of sheets_service.py:277-294 on its own; the row   *)
(* is the one worksheet.find returned                                      *)
update_cell(store, project_id, pilot_id, drone_id, k) ==
    Store(UpdateRow(store.missions, "project_id", project_id,
                    "assigned_pilot", k = 1, pilot_id,
                    "assigned_drone", k = 2, drone_id),
          UpdateRow(store.pilots, "pilot_id", pilot_id,
                    "current_assignment", k = 3, project_id,
                    "status", k = 4, "Assigned"),
          UpdateRow(store.drones, "drone_id", drone_id,
                    "current_assignment", k = 5, project_id,
                    "status", k = 6, "In Use"))

InFlight(args) == [args |-> args, pc |-> 0, returned |-> FALSE, success |-> FALSE]

RacePairs == {<<"P001", "D001">>, <<"P002", "D002">>, <<"P002", "D001">>}

InitRace ==
    /\ missions = HeldMissions
    /\ pilots = HeldPilots
    /\ drones = HeldDrones
    /\ \E first \in RacePairs, second \in RacePairs :
         /\ first # second
         /\ result = [op |-> "assign_mission",
                      calls |-> << InFlight(<<"PRJ001", first[1], first[2]>>),
                                   InFlight(<<"PRJ001", second[1], second[2]>>) >>]
    /\ faults = 0
    /\ svc = NewService
    /\ now = 0
    /\ local = NoFiles

(* lines 66-89: the three reads and the conflict check of one call *)
ReadAndCheck ==
    \E c \in 1..2 :
      LET call == result.calls[c]
          checked == assign_mission(CurrentStore, call.args[1], call.args[2],
                                    call.args[3], NoFault)
      IN  /\ call.pc = 0
          /\ ~call.returned
          /\ result' = [result EXCEPT !.calls[c] =
                          IF checked.ret.store_called
                          THEN [call EXCEPT !.pc = 1]
                          ELSE [call EXCEPT !.returned = TRUE, !.success = FALSE]]
          /\ UNCHANGED <<missions, pilots, drones, faults, svc, now, local>>

(* one update_cell of one call *)
UpdateCell ==
    \E c \in 1..2 :
      LET call == result.calls[c]
      IN  /\ call.pc \in 1..LastCell
          /\ \E st \in {update_cell(CurrentStore, call.args[1], call.args[2],
                                    call.args[3], call.pc)} :
               /\ missions' = st.missions
               /\ pilots' = st.pilots
               /\ drones' = st.drones
          /\ result' = [result EXCEPT !.calls[c].pc = call.pc + 1]
          /\ UNCHANGED <<faults, svc, now, local>>

(* lines 296-302 and coordinator_agent.py:94-103: the call returns *)
ReturnSuccess ==
    \E c \in 1..2 :
      /\ result.calls[c].pc = LastCell + 1
      /\ ~result.calls[c].returned
      /\ result' = [result EXCEPT !.calls[c].returned = TRUE,
                                  !.calls[c].success = TRUE]
      /\ UNCHANGED <<missions, pilots, drones, faults, svc, now, local>>

NextRace ==
    \/ ReadAndCheck
    \/ UpdateCell
    \/ ReturnSuccess

SpecRace == InitRace /\ [][NextRace]_vars

(* C29: when both calls have returned success, the mission row holds the   *)
(* pilot and the drone of one of the two calls, and only that call's pilot *)
(* and drone are Assigned / In Use with the mission as current assignment. *)
C29_LastWriteWinsWhole ==
    (/\ result.op = "assign_mission"
     /\ \A c \in 1..2 : result.calls[c].returned /\ result.calls[c].success)
    => \E c \in 1..2 :
         LET args == result.calls[c].args
         IN  /\ missions[1].assigned_pilot = args[2]
             /\ missions[1].assigned_drone = args[3]
             /\ \A i \in 1..Len(pilots) :
                  (pilots[i].status = "Assigned"
                   \/ pilots[i].current_assignment = args[1])
                  => pilots[i].pilot_id = args[2]
             /\ \A i \in 1..Len(drones) :
                  (drones[i].status = "In Use"
                   \/ drones[i].current_assignment = args[1])
                  => drones[i].drone_id = args[3]

(***************************************************************************)
(* The matching queries of the API: GET /missions/{id}/available-pilots    *)
(* and /available-drones (main.py:226-256).  The second argument of the    *)
(* matching functions is optional and defaults to None.                    *)
(***************************************************************************)
None == "None"

(* matching_service.py:14-18 *)
find_matching_pilots_of(mission, ps) ==
    IF ps = None THEN [raised |-> FALSE, value |-> <<>>]
    ELSE find_matching_pilots(mission, ps)

(* matching_service.py:56-59 *)
find_matching_drones_of(mission, ds) ==
    IF ds = None THEN <<>> ELSE find_matching_drones(mission, ds)

(* the handlers pass the mission alone *)
get_available_pilots_for_mission(store, project_id) ==
    LET mission == get_mission(store, project_id)
    IN  IF mission = <<>>
        THEN [status |-> 404, body |-> <<>>]
        ELSE LET available_pilots == find_matching_pilots_of(mission[1], None)
             IN  IF available_pilots.raised
                 THEN [status |-> 500, body |-> <<>>]
                 ELSE [status |-> 200, body |-> available_pilots.value]

get_available_drones_for_mission(store, project_id) ==
    LET mission == get_mission(store, project_id)
    IN  IF mission = <<>>
        THEN [status |-> 404, body |-> <<>>]
        ELSE [status |-> 200, body |-> find_matching_drones_of(mission[1], None)]

QueryProjects == {"PRJ001", "PRJ002", "PRJ999"}

Answered(op, project_id, r) ==
    [op |-> op, project_id |-> project_id, status |-> r.status, body |-> r.body,
     all_ok |-> result.all_ok]

AvailablePilots ==
    /\ \E project_id \in QueryProjects :
         result' = Answered("available_pilots", project_id,
                            get_available_pilots_for_mission(CurrentStore, project_id))
    /\ UNCHANGED <<missions, pilots, drones, faults, svc, now, local>>

AvailableDrones ==
    /\ \E project_id \in QueryProjects :
         result' = Answered("available_drones", project_id,
                            get_available_drones_for_mission(CurrentStore, project_id))
    /\ UNCHANGED <<missions, pilots, drones, faults, svc, now, local>>

NextQueries ==
    \/ AssignFull
    \/ AvailablePilots
    \/ AvailableDrones

SpecQueries == InitHeld /\ [][NextQueries]_vars

(* C30: the available-pilots and available-drones queries for a mission    *)
(* return exactly find_matching_pilots(mission, all current pilots) and    *)
(* find_matching_drones(mission, all current drones).                      *)
C30_QueriesReturnMatches ==
    /\ (result.op = "available_pilots" /\ result.status # 404)
       => /\ result.status = 200
          /\ result.body
               = find_matching_pilots(get_mission(CurrentStore, result.project_id)[1],
                                      pilots).value
    /\ (result.op = "available_drones" /\ result.status # 404)
       => /\ result.status = 200
          /\ result.body
               = find_matching_drones(get_mission(CurrentStore, result.project_id)[1],
                                      drones)

====
